---- MODULE Spec2Model ----
(***************************************************************************)
(* Verification model of sqlsynthgen's population engine:                  *)
(*   - utils.topological_sort (the dependency resolver),                   *)
(*   - create.create_db_data / populate / _populate_story,                 *)
(*   - create.create_db_vocab and utils.remove_/reinstate_vocab_foreign_   *)
(*     key_constraints (the vocabulary constraint manager),                *)
(*   - utils.sorted_non_vocabulary_tables feeding create_db_data.          *)
(***************************************************************************)
EXTENDS Integers, Sequences, FiniteSets, TLC

\* ------------------------------------------------------------------ bounds
NumNodes == 3
MaxInputLen == 3
MaxEdges == 4
MaxRows == 2
MaxStories == 2
MaxPasses == 2

\* the largest attempt bound a unique-value generator is configured with
MaxTries == 2

VARIABLES
    \* ---- topological_sort
    input_nodes,   \* the input_nodes argument, a list (duplicates allowed)
    edges,         \* get_dependencies_fn as a set of <<node, dependency>>
    white,         \* input nodes not yet considered
    black,         \* output list
    cycles,        \* list of reported cycles
    grey,          \* stack of nodes under consideration
    nextss,        \* nextss[i]: dependencies of grey[i] yet to be considered
    tpc,           \* position inside topological_sort
    warnings,      \* the cycles sorted_non_vocabulary_tables has warned about
    \* ---- create_db_data / populate / _populate_story
    sorted_tables,         \* the tables argument: a list of table names
    table_generator_dict,  \* table name -> num_rows_per_pass of its generator
    story_generator_list,  \* list of [name, num_stories_per_pass]
    num_passes,
    cpc,           \* position inside create_db_data / populate
    sp,            \* position inside _populate_story
    error,         \* the exception that left create_db_data, or "none"
    pass_no,       \* number of populate calls that have returned
    row_counts,    \* create_db_data.row_counts
    pass_counts,   \* populate.row_counts
    story_counts,  \* _populate_story.row_counts
    stories,       \* populate.stories still to run (names of the instances)
    cur_story,     \* name of the story instance being run
    story_pos,     \* number of pairs the running story has yielded
    table_name,    \* the table name the running story has yielded
    ti,            \* index of the table loop of populate
    rows_done,     \* rows inserted so far by the running table batch
    db,            \* committed rows per table in the destination database
    txn_open,      \* a transaction is open on dst_conn
    txn_rows,      \* rows per table inserted by the open transaction
    events,        \* what the running populate call has done, in order
    story_rows,    \* rows yielded by the stories that completed, all passes
    provided_values,  \* _populate_story.provided_values
    default_values,   \* _populate_story.default_values
    insert_values,    \* _populate_story.insert_values
    return_values,    \* _populate_story.return_values
    final_values,     \* _populate_story.final_values
    sent_values,      \* the value the story received when it was last resumed
    \* ---- create_db_vocab / remove_ / reinstate_vocab_foreign_key_constraints
    fn,            \* which of the three functions is called
    metadata_fks,  \* the foreign-key constraints declared in metadata
    vocab_tables,  \* get_vocabulary_table_names(config) in iteration order
    db_fks,        \* the foreign-key constraints in the destination database
    db_fks0,       \* db_fks when the function was called
    vpc,           \* position inside the function
    vi,            \* index of the loop over vocab_tables
    pending_fks,   \* constraints of the table that are still to be dropped
    ci,            \* index of the loop over the columns of the table
    vocab_table,   \* the local variable vocab_table (a table name)
    tables_loaded, \* create_db_vocab.tables_loaded
    v_error,       \* the exception that left the function, or "none"
    vlog,          \* what the function has done, in order
    \* ---- remove_db_data
    metadata_foreign_keys,   \* the foreign keys of orm_module.Base.metadata
    metadata_sorted_tables,  \* orm_module.Base.metadata.sorted_tables
    vocab_dict,    \* the table names in ssg_module.vocab_dict
    dst_db,        \* committed number of rows of each table
    dst_db0,       \* dst_db when remove_db_data was called
    dst_conn,      \* number of rows of each table as dst_conn sees them
    ri,            \* index of the loop over the reversed sorted tables
    deletes,       \* the tables a delete was issued against, in order
    rpc,           \* position inside remove_db_data
    \* ---- the unique-value generator
    max_tries,     \* the configured bound on attempts
    tracked,       \* the tuples recorded for each constraint scope
    returned,      \* the tuples returned for each constraint scope, in order
    scope,         \* the constraint scope of the running request
    tries,         \* invocations of the underlying generator in the request
    u_error,       \* the error that ended the run, or "none"
    upc            \* position inside the unique-value generator

topoVars == <<input_nodes, edges, white, black, cycles, grey, nextss, tpc,
              warnings>>

cfgVars == <<sorted_tables, table_generator_dict, story_generator_list, num_passes>>

popVars == <<cfgVars, cpc, sp, error, pass_no, row_counts, pass_counts,
             story_counts, stories, cur_story, story_pos, table_name, ti,
             rows_done, db, txn_open, txn_rows, events, story_rows,
             provided_values, default_values, insert_values, return_values,
             final_values, sent_values>>

vocabVars == <<fn, metadata_fks, vocab_tables, db_fks, db_fks0, vpc, vi,
               pending_fks, ci, vocab_table, tables_loaded, v_error, vlog>>

remVars == <<metadata_foreign_keys, metadata_sorted_tables, vocab_dict, dst_db,
             dst_db0, dst_conn, ri, deletes, rpc>>

uniqVars == <<max_tries, tracked, returned, scope, tries, u_error, upc>>

vars == <<topoVars, popVars, vocabVars, remVars, uniqVars>>

\* ------------------------------------------------------- generic helpers
Range(s) == {s[i] : i \in 1..Len(s)}

\* Python's list.index: the first position holding x
IndexOf(s, x) == CHOOSE i \in 1..Len(s) : s[i] = x /\ \A j \in 1..(i-1) : s[j] # x

Top(s) == s[Len(s)]

Pop(s) == SubSeq(s, 1, Len(s) - 1)

\* ------------------------------------------- the data of a population run
\* the tables of the destination schema
TableNames == {"person", "hospital_visit"}

\* Counter(): every table counts 0
ZeroCounts == [t \in TableNames |-> 0]

\* the columns of a row
Columns == {"person_id", "name"}

\* a row maps a column to where its value comes from: the story ("story"),
\* the table's generator ("generator"), the database ("database"); "absent"
\* when the row has no such key
EmptyRow == [c \in Columns |-> "absent"]

\* every local row of _populate_story is unset
NoRows ==
    /\ provided_values = EmptyRow
    /\ default_values = EmptyRow
    /\ insert_values = EmptyRow
    /\ return_values = EmptyRow
    /\ final_values = EmptyRow
    /\ sent_values = EmptyRow

\* no value is requested from a unique-value generator
UniqIdle ==
    /\ max_tries = 0
    /\ tracked = <<>>
    /\ returned = <<>>
    /\ scope = "none"
    /\ tries = 0
    /\ u_error = "none"
    /\ upc = "idle"

\* remove_db_data is not in progress
RemIdle ==
    /\ metadata_foreign_keys = {}
    /\ metadata_sorted_tables = <<>>
    /\ vocab_dict = {}
    /\ dst_db = <<>>
    /\ dst_db0 = <<>>
    /\ dst_conn = <<>>
    /\ ri = 0
    /\ deletes = <<>>
    /\ rpc = "idle"

\* no vocabulary function is in progress
VocabIdle ==
    /\ fn = "none"
    /\ metadata_fks = {}
    /\ vocab_tables = <<>>
    /\ db_fks = {}
    /\ db_fks0 = {}
    /\ vpc = "idle"
    /\ vi = 0
    /\ pending_fks = {}
    /\ ci = 0
    /\ vocab_table = "unbound"
    /\ tables_loaded = <<>>
    /\ v_error = "none"
    /\ vlog = <<>>

\* no population run is in progress
PopIdle ==
    /\ sorted_tables = <<>>
    /\ table_generator_dict = <<>>
    /\ story_generator_list = <<>>
    /\ num_passes = 0
    /\ cpc = "idle"
    /\ sp = "none"
    /\ error = "none"
    /\ pass_no = 0
    /\ row_counts = ZeroCounts
    /\ pass_counts = ZeroCounts
    /\ story_counts = ZeroCounts
    /\ stories = <<>>
    /\ cur_story = "none"
    /\ story_pos = 0
    /\ table_name = "none"
    /\ ti = 0
    /\ rows_done = 0
    /\ db = ZeroCounts
    /\ txn_open = FALSE
    /\ txn_rows = ZeroCounts
    /\ events = <<>>
    /\ story_rows = ZeroCounts
    /\ NoRows

\* --------------------------------------------------- topological_sort
Universe == 1..NumNodes

\* the lists input_nodes may be: any nodes, duplicates included. set() discards
\* the order of the list, so one list (the non-decreasing one) stands for all
\* its permutations
InputLists ==
    {l \in UNION {[1..n -> Universe] : n \in 0..MaxInputLen} :
        \A i \in 1..(Len(l) - 1) : l[i] <= l[i + 1]}

\* set(input_nodes): duplicates are discarded
NodeSet(lst) == Range(lst)

\* the functions get_dependencies_fn that the sort may be called with: each
\* input node maps to a set of nodes, input nodes or not
DependencyFns(lst) ==
    {E \in SUBSET (NodeSet(lst) \X Universe) : Cardinality(E) <= MaxEdges}

\* get_dependencies_fn(n): a collection without repeats (a set when called by
\* sorted_non_vocabulary_tables); pop() may take any element of it
get_dependencies_fn(n) == {e[2] : e \in {d \in edges : d[1] = n}}

TopoInit ==
    /\ input_nodes \in InputLists
    /\ edges \in DependencyFns(input_nodes)
    /\ white = {}
    /\ black = <<>>
    /\ cycles = <<>>
    /\ grey = <<>>
    /\ nextss = <<>>
    /\ tpc = "start"
    /\ warnings = <<>>
    /\ PopIdle
    /\ VocabIdle
    /\ RemIdle
    /\ UniqIdle

\* white = set(input_nodes); black = []; cycles = []
TopoStart ==
    /\ tpc = "start"
    /\ white' = NodeSet(input_nodes)
    /\ black' = <<>>
    /\ cycles' = <<>>
    /\ tpc' = "outer"
    /\ UNCHANGED <<input_nodes, edges, grey, nextss>>
    /\ UNCHANGED warnings
    /\ UNCHANGED popVars
    /\ UNCHANGED vocabVars
    /\ UNCHANGED remVars
    /\ UNCHANGED uniqVars

\* w = white.pop(); grey = [w]; nextss = [get_dependencies_fn(w)]
TopoPickRoot ==
    /\ tpc = "outer"
    /\ white # {}
    /\ \E w \in white :
        /\ white' = white \ {w}
        /\ grey' = <<w>>
        /\ nextss' = <<get_dependencies_fn(w)>>
    /\ tpc' = "inner"
    /\ UNCHANGED <<input_nodes, edges, black, cycles>>
    /\ UNCHANGED warnings
    /\ UNCHANGED popVars
    /\ UNCHANGED vocabVars
    /\ UNCHANGED remVars
    /\ UNCHANGED uniqVars

BlackAppendFront(b, x) == <<x>> \o b

\* black.append(x)
BlackAppend(b, x) == Append(b, x)

\* if not nextss[-1]: black.append(grey.pop()); nextss.pop()
TopoBlacken ==
    /\ tpc = "inner"
    /\ grey # <<>>
    /\ Top(nextss) = {}
    /\ black' = BlackAppend(black, Top(grey))
    /\ grey' = Pop(grey)
    /\ nextss' = Pop(nextss)
    /\ tpc' = IF grey' = <<>> THEN "outer" ELSE "inner"
    /\ UNCHANGED <<input_nodes, edges, white, cycles>>
    /\ UNCHANGED warnings
    /\ UNCHANGED popVars
    /\ UNCHANGED vocabVars
    /\ UNCHANGED remVars
    /\ UNCHANGED uniqVars

WhiteKeep(w, n) == w

\* white.remove(n)
WhiteRemove(w, n) == w \ {n}

\* n = nextss[-1].pop(); n in white: move it to the grey stack
TopoVisit ==
    /\ tpc = "inner"
    /\ grey # <<>>
    /\ \E n \in Top(nextss) :
        /\ n \in white
        /\ white' = WhiteRemove(white, n)
        /\ grey' = Append(grey, n)
        /\ nextss' = Append([nextss EXCEPT ![Len(nextss)] = @ \ {n}],
                            get_dependencies_fn(n))
    /\ UNCHANGED <<input_nodes, edges, black, cycles, tpc>>
    /\ UNCHANGED warnings
    /\ UNCHANGED popVars
    /\ UNCHANGED vocabVars
    /\ UNCHANGED remVars
    /\ UNCHANGED uniqVars

CycleSliceWholeStack(g, n) == g

CycleSliceAboveStart(g, n) == SubSeq(g, IndexOf(g, n) + 1, Len(g))

CycleSliceProper(g, n) ==
    IF IndexOf(g, n) = Len(g) THEN <<>> ELSE SubSeq(g, IndexOf(g, n), Len(g))

\* cycle_start = grey.index(n); grey[cycle_start:len(grey)]
CycleSlice(g, n) == SubSeq(g, IndexOf(g, n), Len(g))

RecordNothing(cs, c) == cs

\* cycles.append(c)
RecordCycle(cs, c) == Append(cs, c)

\* n = nextss[-1].pop(); n in grey: n is in a cycle
TopoCycle ==
    /\ tpc = "inner"
    /\ grey # <<>>
    /\ \E n \in Top(nextss) :
        /\ n \notin white
        /\ n \in Range(grey)
        /\ cycles' = RecordCycle(cycles, CycleSlice(grey, n))
        /\ nextss' = [nextss EXCEPT ![Len(nextss)] = @ \ {n}]
    /\ UNCHANGED <<input_nodes, edges, white, black, grey, tpc>>
    /\ UNCHANGED warnings
    /\ UNCHANGED popVars
    /\ UNCHANGED vocabVars
    /\ UNCHANGED remVars
    /\ UNCHANGED uniqVars

DropNothing(ns, n) == ns

\* nextss[-1].pop() of a dependency that is neither white nor grey
DropDependency(ns, n) == [ns EXCEPT ![Len(ns)] = @ \ {n}]

\* n = nextss[-1].pop(); n is finished or is not an input node: ignored
TopoSkip ==
    /\ tpc = "inner"
    /\ grey # <<>>
    /\ \E n \in Top(nextss) :
        /\ n \notin white
        /\ n \notin Range(grey)
        /\ nextss' = DropDependency(nextss, n)
    /\ UNCHANGED <<input_nodes, edges, white, black, cycles, grey, tpc>>
    /\ UNCHANGED warnings
    /\ UNCHANGED popVars
    /\ UNCHANGED vocabVars
    /\ UNCHANGED remVars
    /\ UNCHANGED uniqVars

\* while white: ... is over; return (black, cycles)
TopoReturn ==
    /\ tpc = "outer"
    /\ white = {}
    /\ tpc' = "done"
    /\ UNCHANGED <<input_nodes, edges, white, black, cycles, grey, nextss>>
    /\ UNCHANGED warnings
    /\ UNCHANGED popVars
    /\ UNCHANGED vocabVars
    /\ UNCHANGED remVars
    /\ UNCHANGED uniqVars

TopoNext ==
    \/ TopoStart
    \/ TopoPickRoot
    \/ TopoBlacken
    \/ TopoVisit
    \/ TopoCycle
    \/ TopoSkip
    \/ TopoReturn

Init == TopoInit

Next == TopoNext

Spec == Init /\ [][Next]_vars

\* the loops of topological_sort run without interruption
FairSpec == Init /\ [][Next]_vars /\ WF_vars(Next)

\* ------------------------------------------ properties of topological_sort
InputSet == NodeSet(input_nodes)

\* the dependency graph restricted to the input nodes
InputEdges == {e \in edges : e[2] \in InputSet}

\* Warshall: pairs connected by a path whose inner nodes are all <= k
RECURSIVE PathsVia(_, _)
PathsVia(E, k) ==
    IF k = 0 THEN E
    ELSE LET T == PathsVia(E, k - 1)
         IN  T \cup {p \in Universe \X Universe : <<p[1], k>> \in T /\ <<k, p[2]>> \in T}

\* <<a, b>> \in Reach: a non-empty path of dependencies leads from a to b
Reach == PathsVia(InputEdges, NumNodes)

OnCycle(n) == <<n, n>> \in Reach

Acyclic == \A n \in InputSet : ~OnCycle(n)

SameComponent(a, b) == a = b \/ (<<a, b>> \in Reach /\ <<b, a>> \in Reach)

DependsOn(t, d) == <<t, d>> \in InputEdges

Before(a, b) == IndexOf(black, a) < IndexOf(black, b)

InCommonCycle(a, b) ==
    \E i \in 1..Len(cycles) : a \in Range(cycles[i]) /\ b \in Range(cycles[i])

TopoDone == tpc = "done"

\* C1: on an acyclic dependency graph, whatever roots and dependencies are
\* picked, every input node comes after each input node it depends on.
C1_DependenciesFirst ==
    (TopoDone /\ Acyclic) =>
        \A t \in InputSet : \A d \in InputSet :
            DependsOn(t, d) => Before(d, t)

C1_Witness ==
    /\ TopoDone
    /\ Acyclic
    /\ Len(black) = 3
    /\ \E t \in InputSet : \E d \in InputSet : \E e \in InputSet :
        DependsOn(t, d) /\ DependsOn(d, e)

\* C2: for every input the sorted list holds every distinct input node
\* exactly once and nothing that is not an input node.
C2_EveryInputOnce ==
    TopoDone =>
        /\ Range(black) = InputSet
        /\ Len(black) = Cardinality(InputSet)

C2_Witness ==
    /\ TopoDone
    /\ Len(input_nodes) > Cardinality(InputSet)
    /\ \E e \in edges : e[2] \notin InputSet
    /\ ~Acyclic
    /\ Len(black) = 2

\* C3: topological_sort terminates on every finite dependency graph, cyclic
\* or not: it eventually returns, with white and grey empty.
C3_Terminates == <>(TopoDone /\ white = {} /\ grey = <<>>)

C3_Witness ==
    /\ TopoDone
    /\ white = {}
    /\ grey = <<>>
    /\ \E n \in InputSet : DependsOn(n, n)
    /\ \E a \in InputSet : \E b \in InputSet :
        a # b /\ DependsOn(a, b) /\ DependsOn(b, a)

\* C4: whenever an input node T ends up before an input node D that T depends
\* on, some reported cycle contains both T and D.
C4_MisorderOnlyInCycle ==
    TopoDone =>
        \A t \in InputSet : \A d \in InputSet :
            (DependsOn(t, d) /\ Before(t, d)) => InCommonCycle(t, d)

C4_Witness ==
    /\ TopoDone
    /\ \E t \in InputSet : \E d \in InputSet :
        DependsOn(t, d) /\ Before(t, d) /\ InCommonCycle(t, d)

\* C5: if the dependency graph restricted to the input nodes has a cycle
\* (a self-dependency included), the list of cycles is not empty.
C5_CycleReported == (TopoDone /\ ~Acyclic) => cycles # <<>>

C5_Witness ==
    /\ TopoDone
    /\ cycles # <<>>
    /\ \E n \in InputSet : DependsOn(n, n)
    /\ Len(black) >= 2

\* C6 (as stated): every input node that lies on a dependency cycle appears
\* in at least one reported cycle.
C6_EveryCyclicNodeReported ==
    TopoDone =>
        \A n \in InputSet :
            OnCycle(n) => \E i \in 1..Len(cycles) : n \in Range(cycles[i])

\* C6 (amended): every input node that lies on a dependency cycle is in the
\* same strongly connected component as a node of some reported cycle.
C6_EveryCyclicComponentReported ==
    TopoDone =>
        \A n \in InputSet :
            OnCycle(n) =>
                \E i \in 1..Len(cycles) : \E m \in Range(cycles[i]) :
                    SameComponent(n, m)

C6_Witness ==
    /\ TopoDone
    /\ \E n \in InputSet :
        /\ OnCycle(n)
        /\ \A i \in 1..Len(cycles) : n \notin Range(cycles[i])
        /\ \E i \in 1..Len(cycles) : \E m \in Range(cycles[i]) : SameComponent(n, m)

\* C7 (docstring): dependencies come after the nodes that depend on them,
\* cycles apart: a dependent has a smaller index than its dependency.
C7_DependentsFirst ==
    TopoDone =>
        \A t \in InputSet : \A d \in InputSet :
            (DependsOn(t, d) /\ ~InCommonCycle(t, d)) => Before(t, d)

\* topological_sort is not running
TopoIdle ==
    /\ input_nodes = <<>>
    /\ edges = {}
    /\ white = {}
    /\ black = <<>>
    /\ cycles = <<>>
    /\ grey = <<>>
    /\ nextss = <<>>
    /\ tpc = "idle"
    /\ warnings = <<>>

\* ------------------------------- create_db_data, populate, _populate_story
\* the lists the tables argument may be: tables of the schema, none twice
TableLists ==
    {l \in UNION {[1..n -> TableNames] : n \in 0..Cardinality(TableNames)} :
        \A i \in 1..Len(l) : \A j \in 1..Len(l) : i # j => l[i] # l[j]}

\* the generators: a table has none, or one with its num_rows_per_pass
GeneratorDicts == UNION {[S -> 0..MaxRows] : S \in SUBSET TableNames}

\* the story descriptors: a story on one table and a story on two tables
StoryGeneratorLists ==
    {<<[name |-> "short_story", num_stories_per_pass |-> a],
       [name |-> "long_story", num_stories_per_pass |-> b]>> :
        a \in 0..MaxStories, b \in 0..MaxStories}

\* the table names a story instance yields, in order
StoryScript(name) ==
    IF name = "short_story" THEN <<"person">> ELSE <<"person", "hospital_visit">>

\* table_dict = {table.name: table for table in tables}
table_dict == Range(sorted_tables)

Count(s, e) == Cardinality({i \in 1..Len(s) : s[i] = e})

\* Counter.__iadd__ on counters of non-negative counts
CounterOverwrite(a, b) == b

CounterAdd(a, b) == [t \in TableNames |-> a[t] + b[t]]

\* dst_conn.execute(insert(table).values(...)): one more row in the table
InsertRow(rows, t) == [rows EXCEPT ![t] = @ + 1]

CounterIncrTwice(c, t) == [c EXCEPT ![t] = @ + 2]

\* row_counts[t] = row_counts.get(t, 0) + 1
CounterIncr(c, t) == [c EXCEPT ![t] = @ + 1]

RollbackEverything(d, rows) == ZeroCounts

RollbackKeepsRows(d, rows) == [t \in TableNames |-> d[t] + rows[t]]

\* leaving "with dst_conn.begin()" through an exception
Rollback(d, rows) == d

\* leaving "with dst_conn.begin()" normally
Commit(d, rows) == [t \in TableNames |-> d[t] + rows[t]]

StoryInstancesOneLess(sg) == [i \in 1..(sg.num_stories_per_pass - 1) |-> sg.name]

\* [(sg["name"], sg["function"](dst_conn)) for _ in range(num_stories_per_pass)]
StoryInstances(sg) == [i \in 1..sg.num_stories_per_pass |-> sg.name]

RECURSIVE SumLists(_)
\* sum([...], [])
SumLists(ls) == IF ls = <<>> THEN <<>> ELSE Head(ls) \o SumLists(Tail(ls))

\* populate.stories
StoryList(sgl) == SumLists([i \in 1..Len(sgl) |-> StoryInstances(sgl[i])])

FactoryEvents(sl) == [i \in 1..Len(sl) |-> <<"factory", sl[i]>>]

\* the generator of table t is invoked if the table has one
GeneratorEvents(t) ==
    IF t \in DOMAIN table_generator_dict THEN <<(<<"generator", t>>)>> ELSE <<>>

\* the partial rows a story may yield as provided_values
ProvidedRows ==
    {EmptyRow, [person_id |-> "story", name |-> "absent"]}

\* the rows table_generator(dst_conn) may return
GeneratedRows ==
    {[person_id |-> "absent", name |-> "generator"],
     [person_id |-> "generator", name |-> "generator"]}

\* default_values: the generator's output, or {} if the table has none
DefaultRows(t) ==
    IF t \in DOMAIN table_generator_dict THEN GeneratedRows ELSE {EmptyRow}

\* cursor.returned_defaults as a dict: nothing, or the assigned identifier
ReturnedRows ==
    {EmptyRow, [person_id |-> "database", name |-> "absent"]}

MergeKeepsFirst(a, b) == [c \in Columns |-> IF a[c] # "absent" THEN a[c] ELSE b[c]]

\* {**a, **b}
Merge(a, b) == [c \in Columns |-> IF b[c] # "absent" THEN b[c] ELSE a[c]]

\* the call that advances the running story: next(story), then story.send(...)
ResumeEvent ==
    IF story_pos = 0 THEN <<"next", cur_story>> ELSE <<"send", cur_story>>

\* the locals of _populate_story are gone
RowsReset ==
    /\ provided_values' = EmptyRow
    /\ default_values' = EmptyRow
    /\ insert_values' = EmptyRow
    /\ return_values' = EmptyRow
    /\ final_values' = EmptyRow
    /\ sent_values' = EmptyRow

PopInit ==
    /\ sorted_tables \in TableLists
    /\ table_generator_dict \in GeneratorDicts
    /\ story_generator_list \in StoryGeneratorLists
    /\ num_passes \in 0..MaxPasses
    /\ cpc = "loop"
    /\ sp = "none"
    /\ error = "none"
    /\ pass_no = 0
    /\ row_counts = ZeroCounts
    /\ pass_counts = ZeroCounts
    /\ story_counts = ZeroCounts
    /\ stories = <<>>
    /\ cur_story = "none"
    /\ story_pos = 0
    /\ table_name = "none"
    /\ ti = 0
    /\ rows_done = 0
    /\ db = ZeroCounts
    /\ txn_open = FALSE
    /\ txn_rows = ZeroCounts
    /\ events = <<>>
    /\ story_rows = ZeroCounts
    /\ NoRows
    /\ TopoIdle
    /\ VocabIdle
    /\ RemIdle
    /\ UniqIdle

\* an exception leaves populate and create_db_data; an open transaction is
\* rolled back by its context manager on the way out
Raise(err) ==
    /\ error' = err
    /\ cpc' = "raised"
    /\ sp' = "none"
    /\ db' = IF txn_open THEN Rollback(db, txn_rows) ELSE db
    /\ txn_open' = FALSE
    /\ txn_rows' = ZeroCounts
    /\ events' = IF txn_open THEN Append(events, <<"rollback", "">>) ELSE events
    /\ RowsReset

\* the same, after the failing step has done what 'done' lists
RaiseAfter(err, done) ==
    /\ error' = err
    /\ cpc' = "raised"
    /\ sp' = "none"
    /\ db' = IF txn_open THEN Rollback(db, txn_rows) ELSE db
    /\ txn_open' = FALSE
    /\ txn_rows' = ZeroCounts
    /\ events' = IF txn_open THEN Append(events \o done, <<"rollback", "">>)
                             ELSE events \o done
    /\ RowsReset

\* for _ in range(num_passes): populate(...) is entered and builds stories
PopulateEnter ==
    /\ cpc = "loop"
    /\ pass_no < num_passes
    /\ pass_counts' = ZeroCounts
    /\ stories' = StoryList(story_generator_list)
    /\ events' = FactoryEvents(stories')
    /\ cpc' = "stories"
    /\ UNCHANGED <<sorted_tables, table_generator_dict, story_generator_list,
                   num_passes, sp, error, pass_no, row_counts, story_counts,
                   cur_story, story_pos, table_name, ti, rows_done, db,
                   txn_open, txn_rows, story_rows, provided_values,
                   default_values, insert_values, return_values,
                   final_values, sent_values>>
    /\ UNCHANGED topoVars
    /\ UNCHANGED vocabVars
    /\ UNCHANGED remVars
    /\ UNCHANGED uniqVars

\* a story factory raises while populate builds its list of stories
PopulateFactoryRaises ==
    /\ cpc = "loop"
    /\ pass_no < num_passes
    /\ \E n \in 1..Len(StoryList(story_generator_list)) :
        /\ pass_counts' = ZeroCounts
        /\ error' = "FactoryError"
        /\ cpc' = "raised"
        /\ events' = FactoryEvents(SubSeq(StoryList(story_generator_list), 1, n))
    /\ UNCHANGED <<sorted_tables, table_generator_dict, story_generator_list,
                   num_passes, sp, pass_no, row_counts, story_counts,
                   stories, cur_story, story_pos, table_name, ti, rows_done,
                   db, txn_open, txn_rows, story_rows, provided_values,
                   default_values, insert_values, return_values,
                   final_values, sent_values>>
    /\ UNCHANGED topoVars
    /\ UNCHANGED vocabVars
    /\ UNCHANGED remVars
    /\ UNCHANGED uniqVars

\* for name, story in stories: with dst_conn.begin(): _populate_story(...)
StoryBegin ==
    /\ cpc = "stories"
    /\ stories # <<>>
    /\ ~txn_open
    /\ cur_story' = Head(stories)
    /\ stories' = Tail(stories)
    /\ txn_open' = TRUE
    /\ txn_rows' = ZeroCounts
    /\ story_counts' = ZeroCounts
    /\ story_pos' = 0
    /\ sp' = "next"
    /\ cpc' = "story"
    /\ events' = events \o <<(<<"begin", "">>), (<<"story", cur_story'>>)>>
    /\ UNCHANGED <<sorted_tables, table_generator_dict, story_generator_list,
                   num_passes, error, pass_no, row_counts, pass_counts,
                   table_name, ti, rows_done, db, story_rows,
                   provided_values, default_values, insert_values,
                   return_values, final_values, sent_values>>
    /\ UNCHANGED topoVars
    /\ UNCHANGED vocabVars
    /\ UNCHANGED remVars
    /\ UNCHANGED uniqVars

\* next(story) / story.send(final_values) yields the next pair
StoryYield ==
    /\ cpc = "story"
    /\ sp = "next"
    /\ story_pos < Len(StoryScript(cur_story))
    /\ table_name' = StoryScript(cur_story)[story_pos + 1]
    /\ story_pos' = story_pos + 1
    /\ sp' = "yielded"
    /\ provided_values' \in ProvidedRows
    /\ sent_values' = final_values
    /\ default_values' = EmptyRow
    /\ insert_values' = EmptyRow
    /\ return_values' = EmptyRow
    /\ final_values' = EmptyRow
    /\ events' = events \o <<ResumeEvent, (<<"yield", table_name'>>)>>
    /\ UNCHANGED <<sorted_tables, table_generator_dict, story_generator_list,
                   num_passes, cpc, error, pass_no, row_counts, pass_counts,
                   story_counts, stories, cur_story, ti, rows_done, db,
                   txn_open, txn_rows, story_rows>>
    /\ UNCHANGED topoVars
    /\ UNCHANGED vocabVars
    /\ UNCHANGED remVars
    /\ UNCHANGED uniqVars

\* next(story) / story.send(final_values) raises StopIteration
StoryStop ==
    /\ cpc = "story"
    /\ sp = "next"
    /\ story_pos = Len(StoryScript(cur_story))
    /\ sp' = "returned"
    /\ provided_values' = EmptyRow
    /\ sent_values' = final_values
    /\ default_values' = EmptyRow
    /\ insert_values' = EmptyRow
    /\ return_values' = EmptyRow
    /\ final_values' = EmptyRow
    /\ events' = events \o <<ResumeEvent, (<<"stop", cur_story>>)>>
    /\ UNCHANGED <<sorted_tables, table_generator_dict, story_generator_list,
                   num_passes, cpc, error, pass_no, row_counts, pass_counts,
                   story_counts, stories, cur_story, story_pos, table_name,
                   ti, rows_done, db, txn_open, txn_rows, story_rows>>
    /\ UNCHANGED topoVars
    /\ UNCHANGED vocabVars
    /\ UNCHANGED remVars
    /\ UNCHANGED uniqVars

\* next(story) / story.send(final_values) raises another exception
StoryRaises ==
    /\ cpc = "story"
    /\ sp = "next"
    /\ RaiseAfter("StoryError", <<ResumeEvent>>)
    /\ UNCHANGED <<sorted_tables, table_generator_dict, story_generator_list,
                   num_passes, pass_no, row_counts, pass_counts,
                   story_counts, stories, cur_story, story_pos, table_name,
                   ti, rows_done, story_rows>>
    /\ UNCHANGED topoVars
    /\ UNCHANGED vocabVars
    /\ UNCHANGED remVars
    /\ UNCHANGED uniqVars

\* table = table_dict[table_name]; default values; insert; count the row
StoryInsert ==
    /\ cpc = "story"
    /\ sp = "yielded"
    /\ table_name \in table_dict
    /\ txn_rows' = InsertRow(txn_rows, table_name)
    /\ story_counts' = CounterIncr(story_counts, table_name)
    /\ default_values' \in DefaultRows(table_name)
    /\ insert_values' = Merge(default_values', provided_values)
    /\ return_values' \in ReturnedRows
    /\ final_values' = Merge(insert_values', return_values')
    /\ sent_values' = EmptyRow
    /\ events' = events \o GeneratorEvents(table_name)
                        \o <<(<<"insert", table_name>>)>>
    /\ sp' = "next"
    /\ UNCHANGED <<sorted_tables, table_generator_dict, story_generator_list,
                   num_passes, cpc, error, pass_no, row_counts, pass_counts,
                   stories, cur_story, story_pos, table_name, ti, rows_done,
                   db, txn_open, story_rows, provided_values>>
    /\ UNCHANGED topoVars
    /\ UNCHANGED vocabVars
    /\ UNCHANGED remVars
    /\ UNCHANGED uniqVars

\* table_dict[table_name] raises KeyError
StoryUnknownTable ==
    /\ cpc = "story"
    /\ sp = "yielded"
    /\ table_name \notin table_dict
    /\ Raise("KeyError")
    /\ UNCHANGED <<sorted_tables, table_generator_dict, story_generator_list,
                   num_passes, pass_no, row_counts, pass_counts,
                   story_counts, stories, cur_story, story_pos, table_name,
                   ti, rows_done, story_rows>>
    /\ UNCHANGED topoVars
    /\ UNCHANGED vocabVars
    /\ UNCHANGED remVars
    /\ UNCHANGED uniqVars

\* table_generator(dst_conn) raises
StoryGeneratorRaises ==
    /\ cpc = "story"
    /\ sp = "yielded"
    /\ table_name \in table_dict
    /\ table_name \in DOMAIN table_generator_dict
    /\ Raise("GeneratorError")
    /\ UNCHANGED <<sorted_tables, table_generator_dict, story_generator_list,
                   num_passes, pass_no, row_counts, pass_counts,
                   story_counts, stories, cur_story, story_pos, table_name,
                   ti, rows_done, story_rows>>
    /\ UNCHANGED topoVars
    /\ UNCHANGED vocabVars
    /\ UNCHANGED remVars
    /\ UNCHANGED uniqVars

\* dst_conn.execute(stmt) raises
StoryInsertRaises ==
    /\ cpc = "story"
    /\ sp = "yielded"
    /\ table_name \in table_dict
    /\ RaiseAfter("InsertError", GeneratorEvents(table_name))
    /\ UNCHANGED <<sorted_tables, table_generator_dict, story_generator_list,
                   num_passes, pass_no, row_counts, pass_counts,
                   story_counts, stories, cur_story, story_pos, table_name,
                   ti, rows_done, story_rows>>
    /\ UNCHANGED topoVars
    /\ UNCHANGED vocabVars
    /\ UNCHANGED remVars
    /\ UNCHANGED uniqVars

\* _populate_story returns; row_counts += ...; the transaction commits
StoryCommit ==
    /\ cpc = "story"
    /\ sp = "returned"
    /\ pass_counts' = CounterAdd(pass_counts, story_counts)
    /\ db' = Commit(db, txn_rows)
    /\ txn_open' = FALSE
    /\ txn_rows' = ZeroCounts
    /\ events' = Append(events, <<"commit", "">>)
    /\ story_rows' = [t \in TableNames |->
                        story_rows[t] + Count(StoryScript(cur_story), t)]
    /\ RowsReset
    /\ sp' = "none"
    /\ cpc' = "stories"
    /\ UNCHANGED <<sorted_tables, table_generator_dict, story_generator_list,
                   num_passes, error, pass_no, row_counts, story_counts,
                   stories, cur_story, story_pos, table_name, ti, rows_done>>
    /\ UNCHANGED topoVars
    /\ UNCHANGED vocabVars
    /\ UNCHANGED remVars
    /\ UNCHANGED uniqVars

\* the story loop is over; for table in tables:
TablesBegin ==
    /\ cpc = "stories"
    /\ stories = <<>>
    /\ ti' = 1
    /\ cpc' = "tables"
    /\ UNCHANGED <<sorted_tables, table_generator_dict, story_generator_list,
                   num_passes, sp, error, pass_no, row_counts, pass_counts,
                   story_counts, stories, cur_story, story_pos, table_name,
                   rows_done, db, txn_open, txn_rows, events, story_rows,
                   provided_values, default_values, insert_values,
                   return_values, final_values, sent_values>>
    /\ UNCHANGED topoVars
    /\ UNCHANGED vocabVars
    /\ UNCHANGED remVars
    /\ UNCHANGED uniqVars

TableAtReversed(i) == sorted_tables[Len(sorted_tables) + 1 - i]

\* the table of the i-th iteration of 'for table in tables'
TableAt(i) == sorted_tables[i]

HasGenerator(t) == t \in DOMAIN table_generator_dict

\* neither of the two 'continue' tests of the table loop applies to table t
HasRowsToGenerate(t) ==
    IF t \in DOMAIN table_generator_dict
    THEN table_generator_dict[t] # 0
    ELSE FALSE

\* no generator for the table, or num_rows_per_pass == 0: continue
TableSkip ==
    /\ cpc = "tables"
    /\ ti <= Len(sorted_tables)
    /\ ~HasRowsToGenerate(TableAt(ti))
    /\ ti' = ti + 1
    /\ UNCHANGED <<sorted_tables, table_generator_dict, story_generator_list,
                   num_passes, cpc, sp, error, pass_no, row_counts,
                   pass_counts, story_counts, stories, cur_story, story_pos,
                   table_name, rows_done, db, txn_open, txn_rows, events,
                   story_rows, provided_values, default_values,
                   insert_values, return_values, final_values, sent_values>>
    /\ UNCHANGED topoVars
    /\ UNCHANGED vocabVars
    /\ UNCHANGED remVars
    /\ UNCHANGED uniqVars

\* with dst_conn.begin(): for _ in range(num_rows_per_pass):
BatchBegin ==
    /\ cpc = "tables"
    /\ ti <= Len(sorted_tables)
    /\ HasRowsToGenerate(TableAt(ti))
    /\ ~txn_open
    /\ txn_open' = TRUE
    /\ txn_rows' = ZeroCounts
    /\ rows_done' = 0
    /\ events' = events \o <<(<<"begin", "">>), (<<"batch", TableAt(ti)>>)>>
    /\ cpc' = "batch"
    /\ UNCHANGED <<sorted_tables, table_generator_dict, story_generator_list,
                   num_passes, sp, error, pass_no, row_counts, pass_counts,
                   story_counts, stories, cur_story, story_pos, table_name,
                   ti, db, story_rows, provided_values, default_values,
                   insert_values, return_values, final_values, sent_values>>
    /\ UNCHANGED topoVars
    /\ UNCHANGED vocabVars
    /\ UNCHANGED remVars
    /\ UNCHANGED uniqVars

\* stmt = insert(table).values(table_generator(dst_conn)); execute; count
BatchRow ==
    /\ cpc = "batch"
    /\ rows_done < table_generator_dict[TableAt(ti)]
    /\ txn_rows' = InsertRow(txn_rows, TableAt(ti))
    /\ pass_counts' = CounterIncr(pass_counts, TableAt(ti))
    /\ rows_done' = rows_done + 1
    /\ events' = events \o <<(<<"generator", TableAt(ti)>>),
                             (<<"insert", TableAt(ti)>>)>>
    /\ UNCHANGED <<sorted_tables, table_generator_dict, story_generator_list,
                   num_passes, cpc, sp, error, pass_no, row_counts,
                   story_counts, stories, cur_story, story_pos, table_name,
                   ti, db, txn_open, story_rows, provided_values,
                   default_values, insert_values, return_values,
                   final_values, sent_values>>
    /\ UNCHANGED topoVars
    /\ UNCHANGED vocabVars
    /\ UNCHANGED remVars
    /\ UNCHANGED uniqVars

\* table_generator(dst_conn) raises inside a table batch
BatchGeneratorRaises ==
    /\ cpc = "batch"
    /\ rows_done < table_generator_dict[TableAt(ti)]
    /\ Raise("GeneratorError")
    /\ UNCHANGED <<sorted_tables, table_generator_dict, story_generator_list,
                   num_passes, pass_no, row_counts, pass_counts,
                   story_counts, stories, cur_story, story_pos, table_name,
                   ti, rows_done, story_rows>>
    /\ UNCHANGED topoVars
    /\ UNCHANGED vocabVars
    /\ UNCHANGED remVars
    /\ UNCHANGED uniqVars

\* dst_conn.execute(stmt) raises inside a table batch
BatchInsertRaises ==
    /\ cpc = "batch"
    /\ rows_done < table_generator_dict[TableAt(ti)]
    /\ RaiseAfter("InsertError", <<(<<"generator", TableAt(ti)>>)>>)
    /\ UNCHANGED <<sorted_tables, table_generator_dict, story_generator_list,
                   num_passes, pass_no, row_counts, pass_counts,
                   story_counts, stories, cur_story, story_pos, table_name,
                   ti, rows_done, story_rows>>
    /\ UNCHANGED topoVars
    /\ UNCHANGED vocabVars
    /\ UNCHANGED remVars
    /\ UNCHANGED uniqVars

\* the rows of the table are done: the transaction commits, next table
BatchCommit ==
    /\ cpc = "batch"
    /\ rows_done = table_generator_dict[TableAt(ti)]
    /\ db' = Commit(db, txn_rows)
    /\ txn_open' = FALSE
    /\ txn_rows' = ZeroCounts
    /\ events' = Append(events, <<"commit", "">>)
    /\ ti' = ti + 1
    /\ cpc' = "tables"
    /\ UNCHANGED <<sorted_tables, table_generator_dict, story_generator_list,
                   num_passes, sp, error, pass_no, row_counts, pass_counts,
                   story_counts, stories, cur_story, story_pos, table_name,
                   rows_done, story_rows, provided_values, default_values,
                   insert_values, return_values, final_values, sent_values>>
    /\ UNCHANGED topoVars
    /\ UNCHANGED vocabVars
    /\ UNCHANGED remVars
    /\ UNCHANGED uniqVars

\* the table loop is over: return row_counts
PopulateReturn ==
    /\ cpc = "tables"
    /\ ti > Len(sorted_tables)
    /\ cpc' = "returned"
    /\ UNCHANGED <<sorted_tables, table_generator_dict, story_generator_list,
                   num_passes, sp, error, pass_no, row_counts, pass_counts,
                   story_counts, stories, cur_story, story_pos, table_name,
                   ti, rows_done, db, txn_open, txn_rows, events, story_rows,
                   provided_values, default_values, insert_values,
                   return_values, final_values, sent_values>>
    /\ UNCHANGED topoVars
    /\ UNCHANGED vocabVars
    /\ UNCHANGED remVars
    /\ UNCHANGED uniqVars

\* row_counts += populate(...)
CreateAccumulate ==
    /\ cpc = "returned"
    /\ row_counts' = CounterAdd(row_counts, pass_counts)
    /\ pass_no' = pass_no + 1
    /\ cpc' = "loop"
    /\ UNCHANGED <<sorted_tables, table_generator_dict, story_generator_list,
                   num_passes, sp, error, pass_counts, story_counts, stories,
                   cur_story, story_pos, table_name, ti, rows_done, db,
                   txn_open, txn_rows, events, story_rows, provided_values,
                   default_values, insert_values, return_values,
                   final_values, sent_values>>
    /\ UNCHANGED topoVars
    /\ UNCHANGED vocabVars
    /\ UNCHANGED remVars
    /\ UNCHANGED uniqVars

\* range(num_passes) is exhausted: return row_counts
CreateReturn ==
    /\ cpc = "loop"
    /\ pass_no = num_passes
    /\ cpc' = "done"
    /\ UNCHANGED <<sorted_tables, table_generator_dict, story_generator_list,
                   num_passes, sp, error, pass_no, row_counts, pass_counts,
                   story_counts, stories, cur_story, story_pos, table_name,
                   ti, rows_done, db, txn_open, txn_rows, events, story_rows,
                   provided_values, default_values, insert_values,
                   return_values, final_values, sent_values>>
    /\ UNCHANGED topoVars
    /\ UNCHANGED vocabVars
    /\ UNCHANGED remVars
    /\ UNCHANGED uniqVars

PopNext ==
    \/ PopulateEnter
    \/ PopulateFactoryRaises
    \/ StoryBegin
    \/ StoryYield
    \/ StoryStop
    \/ StoryRaises
    \/ StoryInsert
    \/ StoryUnknownTable
    \/ StoryGeneratorRaises
    \/ StoryInsertRaises
    \/ StoryCommit
    \/ TablesBegin
    \/ TableSkip
    \/ BatchBegin
    \/ BatchRow
    \/ BatchGeneratorRaises
    \/ BatchInsertRaises
    \/ BatchCommit
    \/ PopulateReturn
    \/ CreateAccumulate
    \/ CreateReturn

PopSpec == PopInit /\ [][PopNext]_vars

\* --------------------------------------------- properties of a population run
Descriptors == 1..Len(story_generator_list)

EventsAt(kind) == {i \in 1..Len(events) : events[i][1] = kind}

\* where the story instance that runs (or ran last) starts in events
LastStoryStart ==
    CHOOSE i \in EventsAt("story") : \A j \in EventsAt("story") : j <= i

\* the number of pairs for table t that the running story instance has yielded
YieldsOfRunningStory(t) ==
    LET start == LastStoryStart
    IN  Cardinality({i \in EventsAt("yield") : i > start /\ events[i][2] = t})

InsertsOfRunningStory ==
    LET start == LastStoryStart
    IN  Cardinality({i \in EventsAt("insert") : i > start})

TransactionMarks == {"begin", "commit", "rollback", "story", "batch"}

\* the story instance started at events[i] ran to StopIteration inside a
\* transaction that was begun for it and committed after it, with no other
\* transaction or story in between
OwnTransaction(i) ==
    /\ i > 1
    /\ events[i - 1] = <<"begin", "">>
    /\ \E j \in (i + 1)..Len(events) :
        /\ events[j] = <<"commit", "">>
        /\ events[j - 1] = <<"stop", events[i][2]>>
        /\ \A k \in (i + 1)..(j - 1) : events[k][1] \notin TransactionMarks

\* C8 (as stated): after P passes in which every insert succeeded, a table
\* with a generator of num_rows_per_pass = R has exactly P*R as its row count.
C8_RowsTimesPasses ==
    cpc = "done" =>
        \A t \in table_dict \cap DOMAIN table_generator_dict :
            row_counts[t] = num_passes * table_generator_dict[t]

\* C8 (amended): the row count of such a table is P*R plus the number of rows
\* that the stories completed in those passes inserted into that table.
C8_RowsTimesPassesPlusStories ==
    cpc = "done" =>
        \A t \in table_dict \cap DOMAIN table_generator_dict :
            row_counts[t] = num_passes * table_generator_dict[t] + story_rows[t]

C8_Witness ==
    /\ cpc = "done"
    /\ num_passes = 2
    /\ \E t \in table_dict \cap DOMAIN table_generator_dict :
        /\ table_generator_dict[t] = 2
        /\ story_rows[t] > 0
        /\ row_counts[t] = 4 + story_rows[t]
    /\ \E t \in table_dict \cap DOMAIN table_generator_dict :
        /\ table_generator_dict[t] = 1
        /\ story_rows[t] = 0
        /\ row_counts[t] = 2

\* C9: in a call of populate a descriptor with num_stories_per_pass = K has
\* its factory invoked K times and K instances driven to completion, each in
\* its own transaction, and an instance's row counts are its yields per table.
C9_StoriesPerPass ==
    /\ cpc = "returned" =>
        /\ \A d \in Descriptors :
            /\ Count(events, <<"factory", story_generator_list[d].name>>)
                 = story_generator_list[d].num_stories_per_pass
            /\ Count(events, <<"story", story_generator_list[d].name>>)
                 = story_generator_list[d].num_stories_per_pass
            /\ Count(events, <<"stop", story_generator_list[d].name>>)
                 = story_generator_list[d].num_stories_per_pass
        /\ \A i \in EventsAt("story") : OwnTransaction(i)
    /\ (cpc = "story" /\ sp = "returned") =>
        \A t \in TableNames : story_counts[t] = YieldsOfRunningStory(t)

C9_Witness ==
    /\ cpc = "returned"
    /\ pass_no = 1
    /\ \A d \in Descriptors : story_generator_list[d].num_stories_per_pass = 2
    /\ Count(events, <<"stop", "long_story">>) = 2
    /\ Count(events, <<"yield", "hospital_visit">>) = 2

\* C10: a story is all-or-nothing: while it runs nothing of it is committed,
\* if a step of it fails nothing of it is committed, and when it completes
\* all the rows it yielded are committed together.
C10_StoryAllOrNothing ==
    [][cpc = "story" =>
        /\ cpc' \in {"story", "raised"} => db' = db
        /\ cpc' = "stories" =>
            db' = [t \in TableNames |-> db[t] + YieldsOfRunningStory(t)]
        /\ cpc' \in {"story", "raised", "stories"}]_vars

C10_Witness ==
    /\ cpc = "raised"
    /\ error = "InsertError"
    /\ EventsAt("story") # {}
    /\ InsertsOfRunningStory = 1
    /\ events[Len(events)] = <<"rollback", "">>
    /\ db["person"] = 1
    /\ db["hospital_visit"] = 0

SendsOfRunningStory ==
    LET start == LastStoryStart
    IN  Cardinality({i \in EventsAt("send") : i > start})

AllYieldsOfRunningStory ==
    LET start == LastStoryStart
    IN  Cardinality({i \in EventsAt("yield") : i > start})

\* the row {**a, **b}, column by column
Overridden(a, b) == [c \in Columns |-> IF b[c] = "absent" THEN a[c] ELSE b[c]]

\* C11: the row inserted for a story step is the generator's output (empty
\* without a generator) overridden by the provided values; the story is then
\* resumed exactly once, with the inserted row overridden by the returned
\* values, and yields its next pair only after that.
C11_StoryStepValues ==
    /\ [](cpc = "story" =>
            /\ SendsOfRunningStory <= InsertsOfRunningStory
            /\ InsertsOfRunningStory <= SendsOfRunningStory + 1
            /\ InsertsOfRunningStory <= AllYieldsOfRunningStory
            /\ AllYieldsOfRunningStory <= SendsOfRunningStory + 1)
    /\ [][cpc = "story" =>
            /\ (sp = "yielded" /\ sp' = "next") =>
                /\ table_name \notin DOMAIN table_generator_dict
                     => default_values' = EmptyRow
                /\ insert_values' = Overridden(default_values', provided_values)
                /\ \A c \in Columns : provided_values[c] # "absent"
                     => insert_values'[c] = provided_values[c]
                /\ final_values' = Overridden(insert_values', return_values')
            /\ (sp = "next" /\ story_pos > 0 /\ sp' \in {"yielded", "returned"}) =>
                /\ sent_values' = Overridden(insert_values, return_values)
                /\ Count(events', <<"send", cur_story>>)
                     = Count(events, <<"send", cur_story>>) + 1]_vars

C11_Witness ==
    /\ cpc = "story"
    /\ sp = "next"
    /\ story_pos = 2
    /\ table_name = "hospital_visit"
    /\ provided_values = [person_id |-> "story", name |-> "absent"]
    /\ default_values = [person_id |-> "generator", name |-> "generator"]
    /\ insert_values = [person_id |-> "story", name |-> "generator"]
    /\ return_values = [person_id |-> "database", name |-> "absent"]
    /\ final_values = [person_id |-> "database", name |-> "generator"]
    /\ SendsOfRunningStory = 1

\* where the standalone part of the pass starts in events: after the
\* commit of the last story, or after the factory calls
StandaloneStart ==
    LET S == EventsAt("stop") \cup EventsAt("factory")
    IN  IF EventsAt("stop") # {}
        THEN 1 + CHOOSE i \in EventsAt("stop") : \A j \in EventsAt("stop") : j <= i
        ELSE Cardinality(S)

StandaloneCount(e) ==
    LET start == StandaloneStart
    IN  Cardinality({i \in 1..Len(events) : i > start /\ events[i] = e})

StandaloneTransactions ==
    LET start == StandaloneStart
    IN  Cardinality({i \in EventsAt("begin") : i > start})

\* the batch of table t logged at events[i]: R times generator then insert,
\* inside a transaction begun before and committed after them
WholeBatch(i, t, R) ==
    /\ i > 1
    /\ events[i - 1] = <<"begin", "">>
    /\ Len(events) >= i + 2 * R + 1
    /\ \A k \in 1..R :
        /\ events[i + 2 * k - 1] = <<"generator", t>>
        /\ events[i + 2 * k] = <<"insert", t>>
    /\ events[i + 2 * R + 1] = <<"commit", "">>

RowsPerPass(t) ==
    IF t \in DOMAIN table_generator_dict THEN table_generator_dict[t] ELSE 0

\* C12: in the standalone part of a pass, a table without generator or with
\* num_rows_per_pass = 0 gets no transaction, generator call or insert; every
\* other table of 'tables' gets exactly one transaction holding exactly
\* num_rows_per_pass generator calls, each followed by one insert.
C12_StandaloneBatches ==
    cpc = "returned" =>
        /\ \A t \in TableNames :
            IF t \in Range(sorted_tables) /\ RowsPerPass(t) > 0
            THEN /\ StandaloneCount(<<"batch", t>>) = 1
                 /\ StandaloneCount(<<"generator", t>>) = RowsPerPass(t)
                 /\ StandaloneCount(<<"insert", t>>) = RowsPerPass(t)
                 /\ \A i \in EventsAt("batch") :
                        events[i][2] = t => WholeBatch(i, t, RowsPerPass(t))
            ELSE /\ StandaloneCount(<<"batch", t>>) = 0
                 /\ StandaloneCount(<<"generator", t>>) = 0
                 /\ StandaloneCount(<<"insert", t>>) = 0
        /\ StandaloneTransactions
             = Cardinality({t \in Range(sorted_tables) : RowsPerPass(t) > 0})
        /\ StandaloneTransactions = Cardinality(EventsAt("batch"))

C12_Witness ==
    /\ cpc = "returned"
    /\ sorted_tables = <<"hospital_visit", "person">>
    /\ table_generator_dict = [person |-> 2, hospital_visit |-> 0]
    /\ story_generator_list[2].num_stories_per_pass = 1
    /\ StandaloneCount(<<"generator", "person">>) = 2
    /\ StandaloneCount(<<"generator", "hospital_visit">>) = 0
    /\ Count(events, <<"generator", "hospital_visit">>) = 1

OpenTransactions ==
    Cardinality(EventsAt("begin"))
      - Cardinality(EventsAt("commit") \cup EventsAt("rollback"))

\* C13: within a pass at most one transaction is open at any moment, every
\* story and table batch has a transaction of its own that ends before the
\* next one begins, the story transactions precede the table transactions,
\* and the table batches follow the order of 'tables'.
C13_OneAtATime ==
    /\ OpenTransactions = (IF txn_open THEN 1 ELSE 0)
    /\ txn_open => cpc \in {"story", "batch"}
    /\ \A i \in EventsAt("begin") : \A j \in EventsAt("begin") :
        i < j => \E k \in (i + 1)..(j - 1) :
                    events[k][1] \in {"commit", "rollback"}
    /\ \A i \in EventsAt("story") \cup EventsAt("batch") :
        /\ i > 1
        /\ events[i - 1] = <<"begin", "">>
    /\ \A i \in EventsAt("begin") :
        /\ i < Len(events)
        /\ events[i + 1][1] \in {"story", "batch"}
    /\ \A i \in EventsAt("story") : \A j \in EventsAt("batch") : i < j
    /\ \A i \in EventsAt("batch") : \A j \in EventsAt("batch") :
        i < j => IndexOf(sorted_tables, events[i][2])
                   < IndexOf(sorted_tables, events[j][2])

C13_Witness ==
    /\ cpc = "batch"
    /\ pass_no = 1
    /\ txn_open
    /\ Cardinality(EventsAt("story")) = 2
    /\ Cardinality(EventsAt("batch")) = 2
    /\ sorted_tables = <<"hospital_visit", "person">>
    /\ events[Len(events)] = <<"insert", "person">>

\* C14: an error raised inside a story or a table batch rolls the active
\* transaction back and leaves create_db_data: what was committed before
\* (in this or an earlier pass) stays committed, and no story, table batch
\* or pass runs afterwards.
C14_ErrorStopsRun ==
    [][/\ (error = "none" /\ error' # "none" /\ txn_open) =>
            /\ cpc \in {"story", "batch"}
            /\ db' = db
            /\ ~txn_open'
            /\ txn_rows' = ZeroCounts
            /\ events'[Len(events')] = <<"rollback", "">>
            /\ cpc' = "raised"
            /\ pass_no' = pass_no
            /\ row_counts' = row_counts
       /\ error # "none" => vars' = vars
       /\ \A t \in TableNames : db'[t] >= db[t]]_vars

C14_Witness ==
    /\ error = "InsertError"
    /\ cpc = "raised"
    /\ pass_no = 1
    /\ num_passes = 2
    /\ Cardinality(EventsAt("commit")) = 1
    /\ EventsAt("batch") = {}
    /\ events[Len(events)] = <<"rollback", "">>
    /\ sorted_tables = <<"person">>
    /\ HasRowsToGenerate("person")
    /\ db["person"] = 4

\* ---------------------------------------- the vocabulary constraint manager
\* create.create_db_vocab, utils.remove_vocab_foreign_key_constraints and
\* utils.reinstate_vocab_foreign_key_constraints, one call of one of them

VocabFunctions ==
    {"create_db_vocab", "remove_vocab_foreign_key_constraints",
     "reinstate_vocab_foreign_key_constraints"}

\* the tables that config may flag with vocabulary_table: true
VocabularyCandidates == {"concept", "domain"}

\* the columns of each table of the schema, in declaration order
ColumnsOf(t) ==
    IF t = "concept"
    THEN <<"concept_id", "domain_id", "vocabulary_id", "concept_class_id">>
    ELSE IF t = "domain"
    THEN <<"domain_id", "domain_concept_id", "vocabulary_id", "concept_class_id">>
    ELSE <<"person_id", "gender_concept_id">>

\* f"{table_name}_{col_name}_fkey"
make_foreign_key_name(tname, col_name) == tname \o "_" \o col_name \o "_fkey"

\* a foreign-key constraint of table t named n: columns cs refer to rs, a
\* list of <<table, column>> (the strings "table.column")
ForeignKey(t, n, cs, rs) == [tbl |-> t, name |-> n, cols |-> cs, refs |-> rs]

\* the foreign-key constraints the schema may declare: single-column ones
\* between the vocabulary tables, a two-column one, and one of a table
\* that is not a vocabulary table
DeclaredForeignKeys ==
    {ForeignKey("concept", make_foreign_key_name("concept", "domain_id"),
                <<"domain_id">>, <<(<<"domain", "domain_id">>)>>),
     ForeignKey("concept", "concept_class_fkey",
                <<"vocabulary_id", "concept_class_id">>,
                <<(<<"domain", "vocabulary_id">>),
                  (<<"domain", "concept_class_id">>)>>),
     ForeignKey("domain", make_foreign_key_name("domain", "domain_concept_id"),
                <<"domain_concept_id">>, <<(<<"concept", "concept_id">>)>>),
     ForeignKey("person", make_foreign_key_name("person", "gender_concept_id"),
                <<"gender_concept_id">>, <<(<<"concept", "concept_id">>)>>)}

\* get_vocabulary_table_names(config) is a set: any iteration order
VocabOrders ==
    {l \in UNION {[1..n -> VocabularyCandidates] :
                    n \in 0..Cardinality(VocabularyCandidates)} :
        \A i \in 1..Len(l) : \A j \in 1..Len(l) : i # j => l[i] # l[j]}

\* vocab_table.foreign_key_constraints
foreign_key_constraints(t) == {k \in metadata_fks : k.tbl = t}

\* meta_dict["tables"][t]["columns"][c].get("foreign_keys", []), for the
\* meta_dict that describes the same schema as metadata
fk_targets(t, c) ==
    LET S == {<<k, i>> \in foreign_key_constraints(t) \X (1..2) :
                 i <= Len(k.cols) /\ k.cols[i] = c}
    IN  IF S = {} THEN <<>>
        ELSE LET ki == CHOOSE x \in S : TRUE IN <<ki[1].refs[ki[2]]>>

\* a constraint of that name exists on that table in the database
Exists(d, fk) == \E k \in d : k.tbl = fk.tbl /\ k.name = fk.name

\* ALTER TABLE fk.tbl DROP CONSTRAINT fk.name
DropConstraint(d, fk) == {k \in d : ~(k.tbl = fk.tbl /\ k.name = fk.name)}

\* ALTER TABLE fk.tbl ADD CONSTRAINT fk.name FOREIGN KEY ...
AddConstraint(d, fk) == d \cup {fk}

\* session.commit(): what the transaction did is kept
SessionCommit(before, after) == after

\* leaving "with Session(...) as session" without a commit rolls back
SessionClose(before, after) == before

\* what ends the session that executed a successful DropConstraint
DropSessionEnd(before, after) ==
    IF fn = "create_db_vocab"
    THEN SessionClose(before, after)
    ELSE SessionCommit(before, after)

DropSessionMark == IF fn = "create_db_vocab" THEN "close" ELSE "commit"

\* the errors session.execute(DropConstraint(fk)) may raise
DropErrors(fk) ==
    IF Exists(db_fks, fk)
    THEN {"IntegrityError", "InsufficientPrivilege", "OperationalError"}
    ELSE {"UndefinedObject", "OperationalError"}

SwallowsEveryDropError(kind) == TRUE

\* except IntegrityError / except ProgrammingError with UndefinedObject
SwallowsDropError(kind) == kind \in {"IntegrityError", "UndefinedObject"}

\* the errors uploader.load(session.connection()) may raise
LoadErrors == {"IntegrityError", "OperationalError"}

RecordNothingLoaded(l, t) == l

\* tables_loaded.append(vocab_table_name)
RecordLoaded(l, t) == Append(l, t)

\* the constraint the restore loop builds for column c of vocab_tables[vi];
\* append_constraint attaches it to the table held by vocab_table
RestoredForeignKey(c) ==
    ForeignKey(vocab_table, make_foreign_key_name(vocab_tables[vi], c),
               <<c>>, fk_targets(vocab_tables[vi], c))

\* the errors vocab_table.append_constraint(fk) and
\* session.execute(AddConstraint(fk)) may raise
RestoreErrors(c) ==
    IF c \notin Range(ColumnsOf(vocab_table))
    THEN {"ConstraintColumnNotFoundError"}
    ELSE IF Exists(db_fks, RestoredForeignKey(c))
    THEN {"DuplicateObject", "OperationalError"}
    ELSE {"IntegrityError", "OperationalError"}

StopAfterFailure(i) == Len(vocab_tables) + 1

\* except IntegrityError sits inside the loop over the tables
NextTableAfterFailure(i) == i + 1

RestoreAfterLoad == "restore_table"

\* after a load the first loop goes on with the next vocabulary table; the
\* restore loop starts only when the first loop is exhausted
NextAfterLoad == "drop_table"

VocabInit ==
    /\ fn \in VocabFunctions
    /\ metadata_fks \in SUBSET DeclaredForeignKeys
    /\ vocab_tables \in VocabOrders
    /\ db_fks \in SUBSET metadata_fks
    /\ db_fks0 = db_fks
    /\ vpc = "start"
    /\ vi = 0
    /\ pending_fks = {}
    /\ ci = 0
    /\ vocab_table = "unbound"
    /\ tables_loaded = <<>>
    /\ v_error = "none"
    /\ vlog = <<>>
    /\ TopoIdle
    /\ PopIdle
    /\ RemIdle
    /\ UniqIdle

\* an exception leaves the function
VocabRaise(kind, done) ==
    /\ v_error' = kind
    /\ vpc' = "raised"
    /\ vlog' = vlog \o done

\* vocab_tables = get_vocabulary_table_names(config)
VocabStart ==
    /\ vpc = "start"
    /\ vi' = 1
    /\ vpc' = IF fn = "reinstate_vocab_foreign_key_constraints"
              THEN "restore_table" ELSE "drop_table"
    /\ UNCHANGED <<fn, metadata_fks, vocab_tables, db_fks, db_fks0,
                   pending_fks, ci, vocab_table, tables_loaded, v_error,
                   vlog>>
    /\ UNCHANGED topoVars
    /\ UNCHANGED popVars
    /\ UNCHANGED remVars
    /\ UNCHANGED uniqVars

\* for vocab_table_name in vocab_tables: vocab_table = metadata.tables[...]
DropTableBegin ==
    /\ vpc = "drop_table"
    /\ vi <= Len(vocab_tables)
    /\ vocab_table' = vocab_tables[vi]
    /\ pending_fks' = foreign_key_constraints(vocab_tables[vi])
    /\ vlog' = Append(vlog, <<"table", vocab_tables[vi]>>)
    /\ vpc' = "drop"
    /\ UNCHANGED <<fn, metadata_fks, vocab_tables, db_fks, db_fks0, vi, ci,
                   tables_loaded, v_error>>
    /\ UNCHANGED topoVars
    /\ UNCHANGED popVars
    /\ UNCHANGED remVars
    /\ UNCHANGED uniqVars

\* session.execute(DropConstraint(fk)) succeeds
DropSucceeds ==
    /\ vpc = "drop"
    /\ \E fk \in pending_fks :
        /\ Exists(db_fks, fk)
        /\ db_fks' = DropSessionEnd(db_fks, DropConstraint(db_fks, fk))
        /\ pending_fks' = pending_fks \ {fk}
        /\ vlog' = vlog \o <<(<<"begin", "">>), (<<"drop", fk.name>>),
                             (<<DropSessionMark, "">>)>>
    /\ UNCHANGED <<fn, metadata_fks, vocab_tables, db_fks0, vpc, vi, ci,
                   vocab_table, tables_loaded, v_error>>
    /\ UNCHANGED topoVars
    /\ UNCHANGED popVars
    /\ UNCHANGED remVars
    /\ UNCHANGED uniqVars

\* session.execute(DropConstraint(fk)) raises
DropFails ==
    /\ vpc = "drop"
    /\ \E fk \in pending_fks : \E kind \in DropErrors(fk) :
        IF SwallowsDropError(kind)
        THEN /\ pending_fks' = pending_fks \ {fk}
             /\ vlog' = vlog \o <<(<<"begin", "">>), (<<"drop", fk.name>>),
                                  (<<"rollback", "">>), (<<kind, fk.name>>)>>
             /\ UNCHANGED <<vpc, v_error>>
        ELSE /\ VocabRaise(kind, <<(<<"begin", "">>), (<<"drop", fk.name>>),
                                   (<<"rollback", "">>), (<<kind, fk.name>>)>>)
             /\ UNCHANGED pending_fks
    /\ UNCHANGED <<fn, metadata_fks, vocab_tables, db_fks, db_fks0, vi, ci,
                   vocab_table, tables_loaded>>
    /\ UNCHANGED topoVars
    /\ UNCHANGED popVars
    /\ UNCHANGED remVars
    /\ UNCHANGED uniqVars

\* every constraint of the table has been tried
DropsDone ==
    /\ vpc = "drop"
    /\ pending_fks = {}
    /\ IF fn = "create_db_vocab"
       THEN vpc' = "load" /\ vi' = vi
       ELSE vpc' = "drop_table" /\ vi' = vi + 1
    /\ UNCHANGED <<fn, metadata_fks, vocab_tables, db_fks, db_fks0,
                   pending_fks, ci, vocab_table, tables_loaded, v_error,
                   vlog>>
    /\ UNCHANGED topoVars
    /\ UNCHANGED popVars
    /\ UNCHANGED remVars
    /\ UNCHANGED uniqVars

\* uploader.load(session.connection()) returns; session.commit()
LoadSucceeds ==
    /\ vpc = "load"
    /\ tables_loaded' = RecordLoaded(tables_loaded, vocab_tables[vi])
    /\ vlog' = vlog \o <<(<<"begin", "">>), (<<"load", vocab_tables[vi]>>),
                         (<<"close", "">>), (<<"loaded", vocab_tables[vi]>>)>>
    /\ vi' = vi + 1
    /\ vpc' = NextAfterLoad
    /\ UNCHANGED <<fn, metadata_fks, vocab_tables, db_fks, db_fks0,
                   pending_fks, ci, vocab_table, v_error>>
    /\ UNCHANGED topoVars
    /\ UNCHANGED popVars
    /\ UNCHANGED remVars
    /\ UNCHANGED uniqVars

\* uploader.load(session.connection()) raises
LoadFails ==
    /\ vpc = "load"
    /\ \E kind \in LoadErrors :
        IF kind = "IntegrityError"
        THEN /\ vlog' = vlog \o <<(<<"begin", "">>), (<<"load", vocab_tables[vi]>>),
                                  (<<"close", "">>),
                                  (<<"IntegrityError", vocab_tables[vi]>>)>>
             /\ vi' = vi + 1
             /\ vpc' = NextAfterLoad
             /\ UNCHANGED v_error
        ELSE /\ VocabRaise(kind, <<(<<"begin", "">>), (<<"load", vocab_tables[vi]>>),
                                   (<<"close", "">>), (<<kind, vocab_tables[vi]>>)>>)
             /\ UNCHANGED vi
    /\ UNCHANGED <<fn, metadata_fks, vocab_tables, db_fks, db_fks0,
                   pending_fks, ci, vocab_table, tables_loaded>>
    /\ UNCHANGED topoVars
    /\ UNCHANGED popVars
    /\ UNCHANGED remVars
    /\ UNCHANGED uniqVars

\* the first loop is over
DropLoopDone ==
    /\ vpc = "drop_table"
    /\ vi > Len(vocab_tables)
    /\ IF fn = "create_db_vocab"
       THEN vpc' = "restore_table" /\ vi' = 1
       ELSE vpc' = "done" /\ vi' = vi
    /\ UNCHANGED <<fn, metadata_fks, vocab_tables, db_fks, db_fks0,
                   pending_fks, ci, vocab_table, tables_loaded, v_error,
                   vlog>>
    /\ UNCHANGED topoVars
    /\ UNCHANGED popVars
    /\ UNCHANGED remVars
    /\ UNCHANGED uniqVars

\* for vocab_table_name in vocab_tables: try: for (column_name, ...) in ...
RestoreTableBegin ==
    /\ vpc = "restore_table"
    /\ vi <= Len(vocab_tables)
    /\ vocab_table' = IF fn = "reinstate_vocab_foreign_key_constraints"
                      THEN vocab_tables[vi] ELSE vocab_table
    /\ ci' = 1
    /\ vlog' = Append(vlog, <<"restore", vocab_tables[vi]>>)
    /\ vpc' = "restore"
    /\ UNCHANGED <<fn, metadata_fks, vocab_tables, db_fks, db_fks0, vi,
                   pending_fks, tables_loaded, v_error>>
    /\ UNCHANGED topoVars
    /\ UNCHANGED popVars
    /\ UNCHANGED remVars
    /\ UNCHANGED uniqVars

\* fk_targets is empty: the column has no foreign key
RestoreSkipColumn ==
    /\ vpc = "restore"
    /\ ci <= Len(ColumnsOf(vocab_tables[vi]))
    /\ fk_targets(vocab_tables[vi], ColumnsOf(vocab_tables[vi])[ci]) = <<>>
    /\ ci' = ci + 1
    /\ UNCHANGED <<fn, metadata_fks, vocab_tables, db_fks, db_fks0, vpc, vi,
                   pending_fks, vocab_table, tables_loaded, v_error, vlog>>
    /\ UNCHANGED topoVars
    /\ UNCHANGED popVars
    /\ UNCHANGED remVars
    /\ UNCHANGED uniqVars

\* append_constraint, session.execute(AddConstraint(fk)), session.commit()
RestoreSucceeds ==
    /\ vpc = "restore"
    /\ ci <= Len(ColumnsOf(vocab_tables[vi]))
    /\ LET c == ColumnsOf(vocab_tables[vi])[ci] IN
        /\ fk_targets(vocab_tables[vi], c) # <<>>
        /\ c \in Range(ColumnsOf(vocab_table))
        /\ ~Exists(db_fks, RestoredForeignKey(c))
        /\ db_fks' = SessionCommit(db_fks, AddConstraint(db_fks, RestoredForeignKey(c)))
        /\ vlog' = vlog \o <<(<<"begin", "">>), (<<"add", RestoredForeignKey(c).name>>),
                             (<<"commit", "">>)>>
    /\ ci' = ci + 1
    /\ UNCHANGED <<fn, metadata_fks, vocab_tables, db_fks0, vpc, vi,
                   pending_fks, vocab_table, tables_loaded, v_error>>
    /\ UNCHANGED topoVars
    /\ UNCHANGED popVars
    /\ UNCHANGED remVars
    /\ UNCHANGED uniqVars

\* append_constraint or session.execute(AddConstraint(fk)) raises
RestoreFails ==
    /\ vpc = "restore"
    /\ ci <= Len(ColumnsOf(vocab_tables[vi]))
    /\ LET c == ColumnsOf(vocab_tables[vi])[ci] IN
        /\ fk_targets(vocab_tables[vi], c) # <<>>
        /\ \E kind \in RestoreErrors(c) :
            IF kind = "IntegrityError"
            THEN /\ vlog' = vlog \o <<(<<"begin", "">>),
                                      (<<"add", RestoredForeignKey(c).name>>),
                                      (<<"close", "">>),
                                      (<<"IntegrityError", vocab_tables[vi]>>)>>
                 /\ vi' = NextTableAfterFailure(vi)
                 /\ vpc' = "restore_table"
                 /\ UNCHANGED v_error
            ELSE /\ VocabRaise(kind, <<(<<"begin", "">>),
                                       (<<"add", RestoredForeignKey(c).name>>),
                                       (<<"close", "">>),
                                       (<<kind, vocab_tables[vi]>>)>>)
                 /\ UNCHANGED vi
    /\ UNCHANGED <<fn, metadata_fks, vocab_tables, db_fks, db_fks0,
                   pending_fks, ci, vocab_table, tables_loaded>>
    /\ UNCHANGED topoVars
    /\ UNCHANGED popVars
    /\ UNCHANGED remVars
    /\ UNCHANGED uniqVars

\* the columns of the table are done
RestoreColumnsDone ==
    /\ vpc = "restore"
    /\ ci > Len(ColumnsOf(vocab_tables[vi]))
    /\ vi' = vi + 1
    /\ vpc' = "restore_table"
    /\ UNCHANGED <<fn, metadata_fks, vocab_tables, db_fks, db_fks0,
                   pending_fks, ci, vocab_table, tables_loaded, v_error,
                   vlog>>
    /\ UNCHANGED topoVars
    /\ UNCHANGED popVars
    /\ UNCHANGED remVars
    /\ UNCHANGED uniqVars

\* the restore loop is over: return
RestoreLoopDone ==
    /\ vpc = "restore_table"
    /\ vi > Len(vocab_tables)
    /\ vpc' = "done"
    /\ UNCHANGED <<fn, metadata_fks, vocab_tables, db_fks, db_fks0, vi,
                   pending_fks, ci, vocab_table, tables_loaded, v_error,
                   vlog>>
    /\ UNCHANGED topoVars
    /\ UNCHANGED popVars
    /\ UNCHANGED remVars
    /\ UNCHANGED uniqVars

VocabNext ==
    \/ VocabStart
    \/ DropTableBegin
    \/ DropSucceeds
    \/ DropFails
    \/ DropsDone
    \/ LoadSucceeds
    \/ LoadFails
    \/ DropLoopDone
    \/ RestoreTableBegin
    \/ RestoreSkipColumn
    \/ RestoreSucceeds
    \/ RestoreFails
    \/ RestoreColumnsDone
    \/ RestoreLoopDone

VocabSpec == VocabInit /\ [][VocabNext]_vars

\* ------------------------------------ properties of the vocabulary functions
VocabEventsAt(kind) == {i \in 1..Len(vlog) : vlog[i][1] = kind}

\* the load of table t was attempted
LoadAttempted(t) == \E i \in VocabEventsAt("load") : vlog[i][2] = t

\* the load of table t finished without an error
LoadedWithoutError(t) == <<"loaded", t>> \in Range(vlog)

\* the load of table t raised an integrity error, which was logged
LoadIntegrityErrorLogged(t) ==
    \E i \in VocabEventsAt("load") :
        /\ vlog[i][2] = t
        /\ vlog[i + 2] = <<"IntegrityError", t>>

\* the step appends an entry of this kind as the last one of vlog
Logs(kind) ==
    /\ Len(vlog') > Len(vlog)
    /\ vlog'[Len(vlog')][1] = kind

\* C16: create_db_vocab returns exactly the vocabulary tables whose load
\* finished without an integrity error; an integrity error during a load is
\* logged and the load of every other vocabulary table is still attempted.
C16_LoadedTablesReturned ==
    /\ []((fn = "create_db_vocab" /\ vpc = "done") =>
            /\ tables_loaded = SelectSeq(vocab_tables, LoadedWithoutError)
            /\ \A t \in Range(vocab_tables) :
                /\ LoadAttempted(t)
                /\ LoadedWithoutError(t) # LoadIntegrityErrorLogged(t))
    /\ [][(vpc = "load" /\ Logs("IntegrityError")) =>
            /\ v_error' = "none"
            /\ tables_loaded' = tables_loaded
            /\ vi' = vi + 1
            /\ vpc' = "drop_table"]_vars

C16_Witness ==
    /\ fn = "create_db_vocab"
    /\ vpc = "done"
    /\ vocab_tables = <<"concept", "domain">>
    /\ LoadIntegrityErrorLogged("concept")
    /\ tables_loaded = <<"domain">>

References(k, t) == \E i \in 1..Len(k.refs) : k.refs[i][1] = t

VocabErrorKinds ==
    {"IntegrityError", "UndefinedObject", "InsufficientPrivilege",
     "OperationalError", "DuplicateObject", "ConstraintColumnNotFoundError"}

NoFailureLogged == \A i \in 1..Len(vlog) : vlog[i][1] \notin VocabErrorKinds

\* C17 (as stated): when create_db_vocab loads the rows of a vocabulary
\* table and no drop has failed, the database holds no foreign-key
\* constraint that originates at that table or references it.
C17_ConstraintsDroppedBeforeLoad ==
    (fn = "create_db_vocab" /\ vpc = "load" /\ NoFailureLogged) =>
        \A k \in db_fks :
            /\ k.tbl # vocab_tables[vi]
            /\ ~References(k, vocab_tables[vi])

\* C18: while the constraints of a vocabulary table are dropped, an
\* integrity error is logged and the constraint skipped, a missing
\* constraint is a no-op, and the load of the table is still attempted;
\* any other error leaves the function, which then does nothing more.
C18_DropFailurePolicy ==
    /\ [][/\ (vpc = "drop" /\ (Logs("IntegrityError") \/ Logs("UndefinedObject"))) =>
               /\ v_error' = "none"
               /\ vpc' = "drop"
               /\ db_fks' = db_fks
               /\ pending_fks' # pending_fks
               /\ pending_fks' \subseteq pending_fks
          /\ (vpc = "drop" /\ (Logs("InsufficientPrivilege") \/ Logs("OperationalError"))) =>
               /\ v_error' = vlog'[Len(vlog')][1]
               /\ vpc' = "raised"
          /\ v_error # "none" => vars' = vars]_vars
    /\ []((fn = "create_db_vocab" /\ vpc \in {"restore_table", "restore", "done"}) =>
            \A t \in Range(vocab_tables) : LoadAttempted(t))
    /\ []((fn = "create_db_vocab" /\ vpc \in {"load", "drop_table"} /\ vi > 0) =>
            \A j \in 1..(vi - 1) : LoadAttempted(vocab_tables[j]))

C18_Witness ==
    /\ fn = "create_db_vocab"
    /\ v_error = "none"
    /\ \E i \in VocabEventsAt("IntegrityError") : \E j \in VocabEventsAt("UndefinedObject") :
        \E l \in VocabEventsAt("load") :
            /\ i < l
            /\ j < l
            /\ vlog[i - 2][1] = "drop"
            /\ vlog[l] = <<"load", "concept">>
            /\ vlog[i][2] = make_foreign_key_name("concept", "domain_id")
            /\ vlog[j][2] = "concept_class_fkey"

\* the (referencing columns, targets) pairs of the foreign keys of table t
FkPairs(d, t) == {<<k.cols, k.refs>> : k \in {x \in d : x.tbl = t}}

\* C19 (as stated): once create_db_vocab has completed on a database that
\* held the declared constraints, without any failure, every vocabulary
\* table has the same (columns, targets) pairs as before the run.
C19_ConstraintRoundTrip ==
    (/\ fn = "create_db_vocab"
     /\ vpc = "done"
     /\ NoFailureLogged
     /\ db_fks0 = metadata_fks) =>
        \A t \in Range(vocab_tables) : FkPairs(db_fks, t) = FkPairs(db_fks0, t)

\* C20: an integrity error while the foreign keys of one vocabulary table
\* are restored is logged and the restoration goes on with the next table,
\* so that it is attempted for every vocabulary table; every constraint is
\* added in a transaction of its own.
C20_RestoreFailureIsolated ==
    /\ [][(vpc = "restore" /\ Logs("IntegrityError")) =>
            /\ v_error' = "none"
            /\ vi' = vi + 1
            /\ vpc' = "restore_table"
            /\ db_fks' = db_fks]_vars
    /\ []((fn # "remove_vocab_foreign_key_constraints" /\ vpc = "done") =>
            \A t \in Range(vocab_tables) : <<"restore", t>> \in Range(vlog))
    /\ [](\A i \in VocabEventsAt("add") :
            /\ i > 1
            /\ vlog[i - 1] = <<"begin", "">>
            /\ i < Len(vlog)
            /\ vlog[i + 1][1] \in {"commit", "close"})

C20_Witness ==
    /\ fn = "reinstate_vocab_foreign_key_constraints"
    /\ vpc = "done"
    /\ vocab_tables = <<"concept", "domain">>
    /\ \E i \in VocabEventsAt("IntegrityError") : \E j \in VocabEventsAt("add") :
        /\ vlog[i] = <<"IntegrityError", "concept">>
        /\ i < j
        /\ vlog[j][2] = make_foreign_key_name("domain", "domain_concept_id")
        /\ vlog[j + 1] = <<"commit", "">>

\* ----------------------- sorted_non_vocabulary_tables feeding create_db_data
\* the tables of metadata, as nodes of the sort
MetadataNodes == {1, 2, 3}

TableOfNode(n) ==
    IF n = 1 THEN "person" ELSE IF n = 2 THEN "hospital_visit" ELSE "concept"

NodeOfTable(t) ==
    IF t = "person" THEN 1 ELSE IF t = "hospital_visit" THEN 2 ELSE 3

\* get_vocabulary_table_names(config): concept is a vocabulary table, the
\* other tables may be
VocabularyNodeSets == {S \cup {3} : S \in SUBSET {1, 2}}

\* the foreign keys metadata may declare, as <<table, referred table>>
ForeignKeyPairs == {<<1, 2>>, <<2, 1>>, <<1, 3>>, <<2, 3>>}

\* set(metadata.tables.keys()).difference(vocabulary tables), as a list
TableNodeList(V) ==
    CHOOSE l \in InputLists :
        /\ Range(l) = MetadataNodes \ V
        /\ Len(l) = Cardinality(MetadataNodes \ V)

PipeInit ==
    /\ \E V \in VocabularyNodeSets : input_nodes = TableNodeList(V)
    /\ edges \in SUBSET (ForeignKeyPairs \cap (NodeSet(input_nodes) \X MetadataNodes))
    /\ white = {}
    /\ black = <<>>
    /\ cycles = <<>>
    /\ grey = <<>>
    /\ nextss = <<>>
    /\ tpc = "start"
    /\ warnings = <<>>
    /\ PopIdle
    /\ VocabIdle
    /\ RemIdle
    /\ UniqIdle

TablesOfReversed(l) == [i \in 1..Len(l) |-> TableOfNode(l[Len(l) + 1 - i])]

\* return [ metadata.tables[tn] for tn in sorted ]
TablesOf(l) == [i \in 1..Len(l) |-> TableOfNode(l[i])]

\* the story descriptors of the runs that follow the sort
PipeStoryGeneratorLists ==
    {sgl \in StoryGeneratorLists :
        /\ sgl[1].num_stories_per_pass = 1
        /\ sgl[2].num_stories_per_pass = 0}

NoCycleWarnings(cs) == <<>>

\* for cycle in cycles: logger.warning(...): one warning for each cycle, in
\* the order topological_sort reported them
CycleWarnings(cs) == [i \in 1..Len(cs) |-> cs[i]]

\* sorted_non_vocabulary_tables warns about the cycles and returns, and
\* create_db_data is called with its result
SortedTablesReturn ==
    /\ tpc = "done"
    /\ cpc = "idle"
    /\ sorted_tables' = TablesOf(black)
    /\ table_generator_dict' \in GeneratorDicts
    /\ story_generator_list' \in PipeStoryGeneratorLists
    /\ num_passes' \in 1..MaxPasses
    /\ cpc' = "loop"
    /\ UNCHANGED <<sp, error, pass_no, row_counts, pass_counts, story_counts,
                   stories, cur_story, story_pos, table_name, ti, rows_done,
                   db, txn_open, txn_rows, events, story_rows,
                   provided_values, default_values, insert_values,
                   return_values, final_values, sent_values>>
    /\ warnings' = CycleWarnings(cycles)
    /\ UNCHANGED <<input_nodes, edges, white, black, cycles, grey, nextss,
                   tpc>>
    /\ UNCHANGED vocabVars
    /\ UNCHANGED remVars
    /\ UNCHANGED uniqVars

PipeNext ==
    \/ TopoNext
    \/ SortedTablesReturn
    \/ PopNext

PipeSpec == PipeInit /\ [][PipeNext]_vars

\* the tables sorted_non_vocabulary_tables was asked to order
NonVocabularyTables == {TableOfNode(n) : n \in NodeSet(input_nodes)}

\* the foreign keys between tables that are not vocabulary tables
NonVocabularyForeignKeys ==
    {e \in edges : e[1] \in NodeSet(input_nodes) /\ e[2] \in NodeSet(input_nodes)}

\* C28: once sorted_non_vocabulary_tables has returned, its result holds
\* every table that is not a vocabulary table exactly once and no vocabulary
\* table, also when there are cycles; one warning was given for each cycle
\* topological_sort reported; and foreign keys to vocabulary tables play no
\* part: when the foreign keys between the returned tables have no cycle
\* there is no warning and every referenced table comes before the
\* referencing one
C28_NonVocabularyOrdering ==
    cpc # "idle" =>
        /\ Range(sorted_tables) = NonVocabularyTables
        /\ Len(sorted_tables) = Cardinality(NonVocabularyTables)
        /\ \A n \in MetadataNodes \ NodeSet(input_nodes) :
              TableOfNode(n) \notin Range(sorted_tables)
        /\ Len(warnings) = Len(cycles)
        /\ \A i \in 1..Len(cycles) : warnings[i] = cycles[i]
        /\ (\A e \in NonVocabularyForeignKeys : e[1] # e[2] /\ <<e[2], e[1]>> \notin NonVocabularyForeignKeys)
             => /\ warnings = <<>>
                /\ \A e \in NonVocabularyForeignKeys :
                     \E i, j \in 1..Len(sorted_tables) :
                        /\ i < j
                        /\ sorted_tables[i] = TableOfNode(e[2])
                        /\ sorted_tables[j] = TableOfNode(e[1])

\* the result with a cycle between two tables and a foreign key to a
\* vocabulary table: both tables returned, one warning
C28_Witness ==
    /\ cpc # "idle"
    /\ Len(sorted_tables) = 2
    /\ Len(warnings) = 1
    /\ \E e \in edges : e[2] \notin NodeSet(input_nodes)

\* the generator calls of the table batches of the running pass
StandaloneGeneratorCalls ==
    LET B == EventsAt("batch")
    IN  {i \in EventsAt("generator") : \E b \in B : b < i}

\* the batch of table u was committed before events[i]
BatchCommittedBefore(u, i) ==
    \E b \in EventsAt("batch") :
        /\ events[b][2] = u
        /\ \E c \in EventsAt("commit") : b < c /\ c < i

\* C15: after sorted_non_vocabulary_tables on an acyclic foreign-key graph,
\* in every pass the standalone generator of a table is invoked only after
\* the batch of every table it references that is not a vocabulary table
\* (and has a batch, i.e. a generator with rows to make) was committed.
C15_ReferencedBatchesFirst ==
    (Acyclic /\ cpc # "idle") =>
        \A i \in StandaloneGeneratorCalls : \A u \in TableNames :
            (/\ DependsOn(NodeOfTable(events[i][2]), NodeOfTable(u))
             /\ HasRowsToGenerate(u))
                => BatchCommittedBefore(u, i)

C15_Witness ==
    /\ Acyclic
    /\ edges = {<<1, 2>>, <<1, 3>>}
    /\ sorted_tables = <<"hospital_visit", "person">>
    /\ pass_no = 1
    /\ cpc = "batch"
    /\ BatchCommittedBefore("hospital_visit", Len(events))
    /\ events[Len(events) - 1] = <<"generator", "person">>

\* C21: in create_db_vocab every AddConstraint comes after the load of every
\* vocabulary table has been attempted, hence after the last load attempt.
C21_RestoreAfterAllLoads ==
    fn = "create_db_vocab" =>
        \A a \in VocabEventsAt("add") :
            /\ \A l \in VocabEventsAt("load") : l < a
            /\ \A t \in Range(vocab_tables) :
                \E l \in VocabEventsAt("load") : vlog[l][2] = t /\ l < a

C21_Witness ==
    /\ fn = "create_db_vocab"
    /\ vocab_tables = <<"domain", "concept">>
    /\ Cardinality(VocabEventsAt("load")) = 2
    /\ LoadIntegrityErrorLogged("domain")
    /\ \E a \in VocabEventsAt("add") : vlog[a + 1] = <<"commit", "">>

\* the drops that executed without error: not followed by a rollback
SuccessfulDrops == {i \in VocabEventsAt("drop") : vlog[i + 1][1] # "rollback"}

\* C29 (as stated): in create_db_vocab every drop that executed without
\* error was committed, and the constraint it dropped is absent from the
\* database when the rows of the table are loaded.
C29_DropCommittedBeforeLoad ==
    (fn = "create_db_vocab" /\ vpc = "load") =>
        \A i \in SuccessfulDrops :
            /\ vlog[i + 1] = <<"commit", "">>
            /\ ~\E k \in db_fks : k.tbl = vocab_tables[vi] /\ k.name = vlog[i][2]

\* the database failures that do not come from the state create_db_vocab
\* itself left behind: missing privileges, a lost connection
OutsideFailures == {"InsufficientPrivilege", "OperationalError"}

\* C26 (as stated): create_db_vocab is left by an exception only when a
\* database error other than an integrity conflict or a missing constraint
\* strikes from outside; a drop skipped after an integrity conflict (or any
\* other tolerated failure) never makes the restore phase raise.
C26_CompletesDespiteSkippedDrops ==
    (fn = "create_db_vocab" /\ vpc = "raised") => v_error \in OutsideFailures

\* C25: the counts create_db_data returns are, per table, the inserts that
\* the completed stories and table batches of all passes executed (which are
\* the rows committed to the database); populate has then returned exactly
\* num_passes times, one call after the other, and a table without insert
\* has no positive entry.
C25_CountsAreInserts ==
    /\ [](cpc \in {"loop", "done"} =>
            /\ row_counts = db
            /\ \A t \in TableNames : row_counts[t] >= 0)
    /\ [](cpc = "done" =>
            /\ pass_no = num_passes
            /\ \A t \in TableNames :
                row_counts[t] = story_rows[t]
                    + (IF t \in Range(sorted_tables)
                       THEN num_passes * RowsPerPass(t) ELSE 0))
    /\ [][/\ pass_no' \in {pass_no, pass_no + 1}
          /\ pass_no' = pass_no + 1 => (cpc = "returned" /\ cpc' = "loop")
          /\ (cpc = "loop" /\ cpc' = "stories") => ~txn_open]_vars

C25_Witness ==
    /\ cpc = "done"
    /\ num_passes = 2
    /\ sorted_tables = <<"person", "hospital_visit">>
    /\ RowsPerPass("person") = 2
    /\ RowsPerPass("hospital_visit") = 0
    /\ story_rows = [person |-> 2, hospital_visit |-> 2]
    /\ row_counts = [person |-> 6, hospital_visit |-> 2]

\* c is a closed walk of dependencies among input nodes
DependencyCycle(c) ==
    /\ c # <<>>
    /\ Range(c) \subseteq InputSet
    /\ \A k \in 2..Len(c) : <<c[k - 1], c[k]>> \in edges
    /\ <<c[Len(c)], c[1]>> \in edges

\* C27: every reported cycle is a dependency cycle among input nodes, namely
\* the in-progress stack from the revisited node up to its top; an acyclic
\* graph yields no cycle.
C27_ReportedCyclesAreCycles ==
    /\ [](/\ \A i \in 1..Len(cycles) : DependencyCycle(cycles[i])
          /\ Acyclic => cycles = <<>>)
    /\ [][cycles' # cycles =>
            /\ Len(cycles') = Len(cycles) + 1
            /\ SubSeq(cycles', 1, Len(cycles)) = cycles
            /\ \E j \in 1..Len(grey) :
                /\ cycles'[Len(cycles')] = SubSeq(grey, j, Len(grey))
                /\ <<grey[Len(grey)], grey[j]>> \in edges
                /\ \A k \in 1..(j - 1) : grey[k] # grey[j]]_vars

C27_Witness ==
    /\ tpc = "done"
    /\ Len(cycles) = 2
    /\ \E i \in 1..2 : Len(cycles[i]) = 1
    /\ \E i \in 1..2 : Len(cycles[i]) = 3

\* ----------------------------------------------------------- remove_db_data
\* the tables of orm_module.Base.metadata
RemoveTables == {"person", "hospital_visit", "concept"}

\* the foreign keys the metadata may declare, as <<table, referred table>>
RemoveForeignKeyPairs ==
    {<<"hospital_visit", "person">>, <<"person", "hospital_visit">>,
     <<"person", "concept">>, <<"concept", "person">>}

\* the sets ssg_module.vocab_dict may name
VocabDicts == SUBSET {"concept", "person"}

RECURSIVE ForeignKeyPaths(_, _)
\* <<a, b>>: a refers to b through at most k + 1 foreign keys
ForeignKeyPaths(fks, k) ==
    IF k = 0 THEN fks
    ELSE LET P == ForeignKeyPaths(fks, k - 1)
         IN P \cup {p \in RemoveTables \X RemoveTables :
                        \E m \in RemoveTables :
                            <<p[1], m>> \in P /\ <<m, p[2]>> \in fks}

\* <<a, b>>: a refers to b through one or more foreign keys
RefersTo(fks) == ForeignKeyPaths(fks, Cardinality(RemoveTables))

\* the foreign keys that lie on a cycle of foreign keys
CyclicForeignKeys(fks) == {e \in fks : <<e[2], e[1]>> \in RefersTo(fks) \/ e[1] = e[2]}

\* MetaData.sorted_tables: every table once, a referred table before the
\* tables that refer to it; the foreign keys on a cycle are left out of the
\* sort, and tables that do not depend on each other come in any order
SortedTablesOrders(fks) ==
    {l \in [1..Cardinality(RemoveTables) -> RemoveTables] :
        /\ Range(l) = RemoveTables
        /\ \A e \in fks \ CyclicForeignKeys(fks) :
             \E i, j \in 1..Len(l) : i < j /\ l[i] = e[2] /\ l[j] = e[1]}

Unreversed(l) == l

\* reversed(...)
Reversed(l) == [i \in 1..Len(l) |-> l[Len(l) + 1 - i]]

\* DELETE FROM t inside the transaction of dst_conn
DeleteAll(rows, t) == [rows EXCEPT ![t] = 0]

\* the statement is refused when rows of another table may still refer to
\* rows of t
MayViolateForeignKey(t) ==
    /\ dst_conn[t] > 0
    /\ \E u \in RemoveTables \ {t} :
          <<u, t>> \in metadata_foreign_keys /\ dst_conn[u] > 0

\* leaving "with dst_engine.connect() as dst_conn" closes the connection;
\* nothing committed the transaction the first execute began, so it is
\* rolled back
ConnectionClose(committed, seen) == committed

RemInit ==
    /\ metadata_foreign_keys \in SUBSET RemoveForeignKeyPairs
    /\ metadata_sorted_tables \in SortedTablesOrders(metadata_foreign_keys)
    /\ vocab_dict \in VocabDicts
    /\ dst_db \in [RemoveTables -> 0..MaxRows]
    /\ dst_db0 = dst_db
    /\ dst_conn = dst_db
    /\ ri = 1
    /\ deletes = <<>>
    /\ rpc = "loop"
    /\ TopoIdle
    /\ PopIdle
    /\ VocabIdle
    /\ UniqIdle

\* the table the loop is at
RemoveTable == Reversed(metadata_sorted_tables)[ri]

\* if table.name not in ssg_module.vocab_dict: false
RemoveSkipVocab ==
    /\ rpc = "loop"
    /\ ri <= Len(metadata_sorted_tables)
    /\ RemoveTable \in vocab_dict
    /\ ri' = ri + 1
    /\ UNCHANGED <<metadata_foreign_keys, metadata_sorted_tables, vocab_dict,
                   dst_db, dst_db0, dst_conn, deletes, rpc>>
    /\ UNCHANGED topoVars
    /\ UNCHANGED popVars
    /\ UNCHANGED vocabVars
    /\ UNCHANGED uniqVars

\* dst_conn.execute(delete(table))
RemoveDelete ==
    /\ rpc = "loop"
    /\ ri <= Len(metadata_sorted_tables)
    /\ RemoveTable \notin vocab_dict
    /\ dst_conn' = DeleteAll(dst_conn, RemoveTable)
    /\ deletes' = Append(deletes, RemoveTable)
    /\ ri' = ri + 1
    /\ UNCHANGED <<metadata_foreign_keys, metadata_sorted_tables, vocab_dict,
                   dst_db, dst_db0, rpc>>
    /\ UNCHANGED topoVars
    /\ UNCHANGED popVars
    /\ UNCHANGED vocabVars
    /\ UNCHANGED uniqVars

\* dst_conn.execute(delete(table)) raises IntegrityError, which leaves the
\* with block and the function
RemoveDeleteFails ==
    /\ rpc = "loop"
    /\ ri <= Len(metadata_sorted_tables)
    /\ RemoveTable \notin vocab_dict
    /\ MayViolateForeignKey(RemoveTable)
    /\ deletes' = Append(deletes, RemoveTable)
    /\ dst_db' = ConnectionClose(dst_db, dst_conn)
    /\ dst_conn' = dst_db'
    /\ rpc' = "raised"
    /\ UNCHANGED <<metadata_foreign_keys, metadata_sorted_tables, vocab_dict,
                   dst_db0, ri>>
    /\ UNCHANGED topoVars
    /\ UNCHANGED popVars
    /\ UNCHANGED vocabVars
    /\ UNCHANGED uniqVars

\* the loop is over: the with block ends and remove_db_data returns
RemoveReturn ==
    /\ rpc = "loop"
    /\ ri > Len(metadata_sorted_tables)
    /\ dst_db' = ConnectionClose(dst_db, dst_conn)
    /\ dst_conn' = dst_db'
    /\ rpc' = "returned"
    /\ UNCHANGED <<metadata_foreign_keys, metadata_sorted_tables, vocab_dict,
                   dst_db0, ri, deletes>>
    /\ UNCHANGED topoVars
    /\ UNCHANGED popVars
    /\ UNCHANGED vocabVars
    /\ UNCHANGED uniqVars

RemNext ==
    \/ RemoveSkipVocab
    \/ RemoveDelete
    \/ RemoveDeleteFails
    \/ RemoveReturn

RemSpec == RemInit /\ [][RemNext]_vars

\* the position of the delete against table t among the deletes issued
DeletePosition(t) == IndexOf(deletes, t)

\* the reverse of metadata.sorted_tables without the tables of vocab_dict
ExpectedDeletes ==
    SelectSeq(Reversed(metadata_sorted_tables), LAMBDA t : t \notin vocab_dict)

\* C24 as stated: after remove_db_data has returned every table that is not
\* in vocab_dict has no rows in the database and every table of vocab_dict
\* has the rows it had before the call
C24_NonVocabularyTablesEmptied ==
    rpc = "returned" =>
        \A t \in RemoveTables :
            dst_db[t] = IF t \in vocab_dict THEN dst_db0[t] ELSE 0

Scopes == {"unique_constraint_test(a,b)", "unique_constraint_test(c)"}

\* the tuples the underlying generator of a scope may produce
Candidates(s) ==
    IF s = "unique_constraint_test(a,b)"
    THEN {<<x, y>> : x \in BOOLEAN, y \in BOOLEAN}
    ELSE {<<"red">>, <<"blue">>}

\* an attempt is made while fewer than the bound have been made
AttemptAllowedAtBound(n, bound) == n <= bound

AttemptAllowed(n, bound) == n < bound

KeepTracked(keys, k) == keys

\* the tuple is recorded in the tracked set of the scope
Record(keys, k) == keys \cup {k}

UniqInit ==
    /\ max_tries \in 1..MaxTries
    /\ tracked = [s \in Scopes |-> {}]
    /\ returned = [s \in Scopes |-> <<>>]
    /\ scope = "none"
    /\ tries = 0
    /\ u_error = "none"
    /\ upc = "ready"
    /\ TopoIdle
    /\ PopIdle
    /\ VocabIdle
    /\ RemIdle

\* a value is requested for a constraint scope
UniqueCall ==
    /\ upc = "ready"
    /\ scope' \in Scopes
    /\ tries' = 0
    /\ upc' = "trying"
    /\ UNCHANGED <<max_tries, tracked, returned, u_error>>
    /\ UNCHANGED topoVars
    /\ UNCHANGED popVars
    /\ UNCHANGED vocabVars
    /\ UNCHANGED remVars

\* the underlying generator produces a tuple that is not in the tracked set:
\* it is recorded and returned
UniqueAttemptNovel ==
    /\ upc = "trying"
    /\ AttemptAllowed(tries, max_tries)
    /\ \E c \in Candidates(scope) \ tracked[scope] :
          /\ tracked' = [tracked EXCEPT ![scope] = Record(@, c)]
          /\ returned' = [returned EXCEPT ![scope] = Append(@, c)]
    /\ tries' = tries + 1
    /\ upc' = "ready"
    /\ UNCHANGED <<max_tries, scope, u_error>>
    /\ UNCHANGED topoVars
    /\ UNCHANGED popVars
    /\ UNCHANGED vocabVars
    /\ UNCHANGED remVars

\* the underlying generator produces a tuple that is in the tracked set: the
\* generator is invoked again
UniqueAttemptTracked ==
    /\ upc = "trying"
    /\ AttemptAllowed(tries, max_tries)
    /\ Candidates(scope) \cap tracked[scope] # {}
    /\ tries' = tries + 1
    /\ UNCHANGED <<max_tries, tracked, returned, scope, u_error, upc>>
    /\ UNCHANGED topoVars
    /\ UNCHANGED popVars
    /\ UNCHANGED vocabVars
    /\ UNCHANGED remVars

\* the underlying generator raises an error of its own
UniqueGeneratorRaises ==
    /\ upc = "trying"
    /\ AttemptAllowed(tries, max_tries)
    /\ tries' = tries + 1
    /\ u_error' = "generation"
    /\ upc' = "raised"
    /\ UNCHANGED <<max_tries, tracked, returned, scope>>
    /\ UNCHANGED topoVars
    /\ UNCHANGED popVars
    /\ UNCHANGED vocabVars
    /\ UNCHANGED remVars

\* the attempt bound is exceeded: the fatal exhaustion condition
UniqueExhausted ==
    /\ upc = "trying"
    /\ ~AttemptAllowed(tries, max_tries)
    /\ u_error' = "exhaustion"
    /\ upc' = "raised"
    /\ UNCHANGED <<max_tries, tracked, returned, scope, tries>>
    /\ UNCHANGED topoVars
    /\ UNCHANGED popVars
    /\ UNCHANGED vocabVars
    /\ UNCHANGED remVars

UniqNext ==
    \/ UniqueCall
    \/ UniqueAttemptNovel
    \/ UniqueAttemptTracked
    \/ UniqueGeneratorRaises
    \/ UniqueExhausted

UniqSpec == UniqInit /\ [][UniqNext]_vars

\* C22: the tuples returned for one constraint scope are pairwise different,
\* and they are the tracked tuples of the scope
C22_ReturnedTuplesDistinct ==
    \A s \in Scopes :
        /\ \A i, j \in 1..Len(returned[s]) :
              returned[s][i] = returned[s][j] => i = j
        /\ Range(returned[s]) = tracked[s]

\* a second tuple was returned for columns (a, b) after the generator had
\* produced a tracked tuple, and a tuple was returned for column (c)
C22_Witness ==
    /\ upc = "ready"
    /\ scope = "unique_constraint_test(a,b)"
    /\ tries = 2
    /\ Len(returned["unique_constraint_test(a,b)"]) = 2
    /\ Len(returned["unique_constraint_test(c)"]) = 1

\* C23: the underlying generator is never invoked more than max_tries times
\* for one requested value; when max_tries invocations produced no novel
\* tuple the request ends with the exhaustion error and returns and records
\* nothing; the exhaustion error is raised in no other case and differs from
\* an error of the generator
C23_ExhaustionAfterMaxTries ==
    /\ [](/\ tries <= max_tries
          /\ u_error = "exhaustion" => upc = "raised" /\ tries = max_tries)
    /\ [][(upc = "trying" /\ tries = max_tries)
            => /\ upc' = "raised"
               /\ u_error' = "exhaustion"
               /\ returned' = returned
               /\ tracked' = tracked
               /\ tries' = tries]_vars
    /\ [][u_error' # u_error
            => /\ u_error = "none"
               /\ upc = "trying"
               /\ u_error' = (IF tries = max_tries THEN "exhaustion"
                                                   ELSE "generation")]_vars

\* both tuples of column (c) were returned and a third request gave up after
\* two invocations
C23_Witness ==
    /\ u_error = "exhaustion"
    /\ max_tries = 2
    /\ tries = 2
    /\ Len(returned["unique_constraint_test(c)"]) = 2

====
